---- MODULE Spec2Model ----
(***************************************************************************)
(* Contact intake of the interior-design backend: the spam heuristic, the  *)
(* POST /api/contact handler with its detached side effects, the Contact   *)
(* schema (setters, validators, at-rest encryption) and the admin          *)
(* operations on stored contacts.                                          *)
(*                                                                         *)
(* A JavaScript string is a sequence of one-character strings; a JSON      *)
(* object is a function from its keys to values, and a key that is absent  *)
(* from the domain reads as Undefined.                                     *)
(***************************************************************************)
EXTENDS Integers, Sequences, FiniteSets, TLC

(***************************************************************************)
(* Strings                                                                 *)
(***************************************************************************)
UpperChars == <<"A", "B", "C", "D", "E", "F", "G", "H", "I", "J", "K", "L", "M",
                "N", "O", "P", "Q", "R", "S", "T", "U", "V", "W", "X", "Y", "Z">>

LowerChars == <<"a", "b", "c", "d", "e", "f", "g", "h", "i", "j", "k", "l", "m",
                "n", "o", "p", "q", "r", "s", "t", "u", "v", "w", "x", "y", "z">>

DigitChars == <<"0", "1", "2", "3", "4", "5", "6", "7", "8", "9">>

Range(s) == {s[i] : i \in 1..Len(s)}

\* /[A-Z]/
IsUpper(c) == c \in Range(UpperChars)

\* \w of a JavaScript regular expression: [A-Za-z0-9_]
IsWordChar(c) == c \in Range(UpperChars) \cup Range(LowerChars) \cup Range(DigitChars) \cup {"_"}

ToLowerChar(c) ==
    IF IsUpper(c) THEN LowerChars[CHOOSE i \in 1..Len(UpperChars) : UpperChars[i] = c] ELSE c

\* String.prototype.toLowerCase
ToLowerCase(s) == [i \in 1..Len(s) |-> ToLowerChar(s[i])]

\* String.prototype.includes
Includes(s, w) == \E i \in 0..(Len(s) - Len(w)) : \A k \in 1..Len(w) : s[i + k] = w[k]

\* String.prototype.trim (the only white space of the alphabet is " ")
RECURSIVE TrimStart(_)
TrimStart(s) == IF s # <<>> /\ Head(s) = " " THEN TrimStart(Tail(s)) ELSE s

RECURSIVE TrimEnd(_)
TrimEnd(s) == IF s # <<>> /\ s[Len(s)] = " " THEN TrimEnd(SubSeq(s, 1, Len(s) - 1)) ELSE s

Trim(s) == TrimEnd(TrimStart(s))

\* The values undefined and null, distinct from every string.
Undefined == <<"undefined">>

Null == <<"null">>

\* o.k of a JavaScript object
Get(o, k) == IF k \in DOMAIN o THEN o[k] ELSE Undefined

\* !v for a string, undefined or null
Falsy(v) == v = Undefined \/ v = Null \/ v = <<>>

\* v || d
OrElse(v, d) == IF Falsy(v) THEN d ELSE v

(***************************************************************************)
(* Spam heuristic (routes/contact.js)                                      *)
(***************************************************************************)
Str_viagra == <<"v", "i", "a", "g", "r", "a">>

Str_casino == <<"c", "a", "s", "i", "n", "o">>

Str_loan == <<"l", "o", "a", "n">>

Str_credit == <<"c", "r", "e", "d", "i", "t">>

Str_free_money == <<"f", "r", "e", "e", " ", "m", "o", "n", "e", "y">>

Str_click_here == <<"c", "l", "i", "c", "k", " ", "h", "e", "r", "e">>

Str_at_temp == <<"@", "t", "e", "m", "p">>

Str_at_test == <<"@", "t", "e", "s", "t">>

suspiciousWords ==
    <<Str_viagra, Str_casino, Str_loan, Str_credit, Str_free_money, Str_click_here>>

\* suspiciousWords.forEach(word => { if (message.includes(word)) spamScore += 2 })
RECURSIVE ScoreWords(_, _, _)
ScoreWords(words, message, spamScore) ==
    IF words = <<>> THEN spamScore
    ELSE ScoreWords(Tail(words), message,
                    IF Includes(message, Head(words)) THEN spamScore + 2 ELSE spamScore)

\* (message.match(/[A-Z]/g) || []).length
CapsCount(message) == Cardinality({i \in 1..Len(message) : IsUpper(message[i])})

\* A slip: the ratio compared with >= instead of >.
CapsRatioAtLeast(message) == 10 * CapsCount(message) >= 7 * Len(message)

\* capsRatio > 0.7, capsRatio = caps / length in IEEE doubles: the quotient of
\* two small integers is the double nearest to the exact ratio, so it exceeds
\* the literal 0.7 exactly when 10 * caps > 7 * length (0/0 is NaN: false).
CapsRatioAbove(message) == 10 * CapsCount(message) > 7 * Len(message)

SpamThreshold == 5

\* A slip: the threshold compared with > instead of >=.
detectSpam_strictThreshold(contactData) ==
    LET message == ToLowerCase(contactData.message)
        s1 == ScoreWords(suspiciousWords, message, 0)
        s2 == IF CapsRatioAbove(contactData.message) THEN s1 + 3 ELSE s1
        s3 == IF Includes(contactData.email, Str_at_temp)
                 \/ Includes(contactData.email, Str_at_test) THEN s2 + 5 ELSE s2
        spamScore == IF Len(contactData.message) < 10 THEN s3 + 2 ELSE s3
    IN  [isSpam |-> spamScore > SpamThreshold, spamScore |-> spamScore]

detectSpam(contactData) ==
    LET message == ToLowerCase(contactData.message)
        s1 == ScoreWords(suspiciousWords, message, 0)
        s2 == IF CapsRatioAbove(contactData.message) THEN s1 + 3 ELSE s1
        s3 == IF Includes(contactData.email, Str_at_temp)
                 \/ Includes(contactData.email, Str_at_test) THEN s2 + 5 ELSE s2
        spamScore == IF Len(contactData.message) < 10 THEN s3 + 2 ELSE s3
    IN  [isSpam |-> spamScore >= SpamThreshold, spamScore |-> spamScore]

(***************************************************************************)
(* Contact schema (models/Contact.js): setters, validators, encryption     *)
(***************************************************************************)
ENCRYPTED == <<"[", "E", "N", "C", "R", "Y", "P", "T", "E", "D", "]">>

Str_residential == <<"r", "e", "s", "i", "d", "e", "n", "t", "i", "a", "l">>

Str_commercial == <<"c", "o", "m", "m", "e", "r", "c", "i", "a", "l">>

Str_kitchen_bath == <<"k", "i", "t", "c", "h", "e", "n", "-", "b", "a", "t", "h">>

Str_furniture == <<"f", "u", "r", "n", "i", "t", "u", "r", "e">>

Str_consultation == <<"c", "o", "n", "s", "u", "l", "t", "a", "t", "i", "o", "n">>

Str_under_10k == <<"u", "n", "d", "e", "r", "-", "1", "0", "k">>

Str_10k_25k == <<"1", "0", "k", "-", "2", "5", "k">>

Str_25k_50k == <<"2", "5", "k", "-", "5", "0", "k">>

Str_50k_100k == <<"5", "0", "k", "-", "1", "0", "0", "k">>

Str_over_100k == <<"o", "v", "e", "r", "-", "1", "0", "0", "k">>

Str_new == <<"n", "e", "w">>

Str_read == <<"r", "e", "a", "d">>

Str_replied == <<"r", "e", "p", "l", "i", "e", "d">>

Str_archived == <<"a", "r", "c", "h", "i", "v", "e", "d">>

ServiceEnum ==
    {Str_residential, Str_commercial, Str_kitchen_bath, Str_furniture, Str_consultation, <<>>}

BudgetEnum == {Str_under_10k, Str_10k_25k, Str_25k_50k, Str_50k_100k, Str_over_100k, <<>>}

StatusEnum == {Str_new, Str_read, Str_replied, Str_archived}

NameMaxLen == 100

PhoneMaxLen == 20

MessageMaxLen == 2000

IsNullish(v) == v = Undefined \/ v = Null

\* Schema setters run on every assignment to the path, in the constructor and
\* in this.<path> = ... alike: trim on name and phone, lowercase on email.
SetName(v) == IF IsNullish(v) THEN v ELSE Trim(v)

SetEmail(v) == IF IsNullish(v) THEN v ELSE ToLowerCase(v)

SetPhone(v) == IF IsNullish(v) THEN v ELSE Trim(v)

\* \w+([.-]?\w+)*
MatchesWordRuns(s) ==
    /\ Len(s) >= 1
    /\ \A i \in 1..Len(s) : IsWordChar(s[i]) \/ s[i] \in {".", "-"}
    /\ IsWordChar(s[1])
    /\ IsWordChar(s[Len(s)])
    /\ \A i \in 1..(Len(s) - 1) : IsWordChar(s[i]) \/ IsWordChar(s[i + 1])

\* (\.\w{2,3})+
RECURSIVE MatchesDotSuffixes(_)
MatchesDotSuffixes(s) ==
    /\ Len(s) >= 3
    /\ s[1] = "."
    /\ \E n \in {2, 3} :
         /\ Len(s) >= n + 1
         /\ \A k \in 2..(n + 1) : IsWordChar(s[k])
         /\ \/ Len(s) = n + 1
            \/ MatchesDotSuffixes(SubSeq(s, n + 2, Len(s)))

\* /^\w+([.-]?\w+)*@\w+([.-]?\w+)*(\.\w{2,3})+$/
MatchesEmailPattern(s) ==
    \E at \in 1..Len(s) :
        /\ s[at] = "@"
        /\ MatchesWordRuns(SubSeq(s, 1, at - 1))
        /\ \E j \in (at + 1)..Len(s) :
              /\ MatchesWordRuns(SubSeq(s, at + 1, j))
              /\ MatchesDotSuffixes(SubSeq(s, j + 1, Len(s)))

\* required: true on a String path
Required(v) == ~Falsy(v)

\* the other validators are skipped for undefined and null
MaxLength(v, n) == IsNullish(v) \/ Len(v) <= n

InEnum(v, enum) == IsNullish(v) \/ v \in enum

Match(v) == IsNullish(v) \/ v = <<>> \/ MatchesEmailPattern(v)

\* the validators of contactSchema, run by save() before the pre('save') hooks
contactSchemaValid(doc) ==
    /\ Required(doc.name) /\ MaxLength(doc.name, NameMaxLen)
    /\ Required(doc.email) /\ Match(doc.email)
    /\ MaxLength(doc.phone, PhoneMaxLen)
    /\ InEnum(doc.service, ServiceEnum)
    /\ InEnum(doc.budget, BudgetEnum)
    /\ Required(doc.message) /\ MaxLength(doc.message, MessageMaxLen)
    /\ InEnum(doc.status, StatusEnum)
    /\ Required(doc.ipAddress)
    /\ Required(doc.userAgent)

\* new Contact(contactData): setters applied, schema defaults filled in
NewContact(contactData) ==
    [name          |-> SetName(Get(contactData, "name")),
     email         |-> SetEmail(Get(contactData, "email")),
     phone         |-> SetPhone(Get(contactData, "phone")),
     service       |-> OrElse(Get(contactData, "service"), <<>>),
     budget        |-> OrElse(Get(contactData, "budget"), <<>>),
     message       |-> Get(contactData, "message"),
     status        |-> Str_new,
     ipAddress     |-> Get(contactData, "ipAddress"),
     userAgent     |-> Get(contactData, "userAgent"),
     isSpam        |-> contactData.isSpam,
     spamScore     |-> contactData.spamScore,
     encryptedData |-> Null]

\* crypto.scryptSync(process.env.JWT_SECRET, 'salt', 32)
DeriveKey(secret) == [kdf |-> "scrypt", secret |-> secret, salt |-> "salt"]

SensitiveKeys == <<"name", "email", "phone", "message">>

\* JSON.stringify of an object: its defined members in order (undefined
\* members are left out), as a sequence of <<key, value>> pairs
JsonStringify(obj, keys) ==
    SelectSeq([i \in 1..Len(keys) |-> <<keys[i], obj[keys[i]]>>],
              LAMBDA member : member[2] # Undefined)

\* JSON.parse of such a text
JsonParse(text) ==
    [k \in {text[i][1] : i \in 1..Len(text)} |->
        text[CHOOSE i \in 1..Len(text) : text[i][1] = k][2]]

\* aes-256-cbc: a ciphertext opens only under the key and iv that made it
AesEncrypt(key, iv, plaintext) == [key |-> key, iv |-> iv, plain |-> plaintext]

\* decipher.update(...) + decipher.final(...): the text, or a thrown error
AesDecrypt(key, iv, ciphertext) ==
    IF ciphertext.key = key /\ ciphertext.iv = iv
    THEN [ok |-> TRUE, text |-> ciphertext.plain]
    ELSE [ok |-> FALSE, text |-> <<>>]

\* buffer.toString('hex') and the ':' between the two hex strings
Hex(x) == [hex |-> x]

Colon == [sep |-> ":"]

\* String.prototype.split(':')
RECURSIVE Split(_, _)
Split(s, sep) ==
    IF \E i \in 1..Len(s) : s[i] = sep
    THEN LET i == CHOOSE j \in 1..Len(s) : s[j] = sep /\ \A k \in 1..(j - 1) : s[k] # sep
         IN  <<SubSeq(s, 1, i - 1)>> \o Split(SubSeq(s, i + 1, Len(s)), sep)
    ELSE <<s>>

\* A slip: the fields cleared before they are serialized.
encryptSensitiveData_clearsFirst(doc, iv, secret) ==
    LET key == DeriveKey(secret)
        cleared == [doc EXCEPT !.name = SetName(ENCRYPTED),
                               !.email = SetEmail(ENCRYPTED),
                               !.phone = SetPhone(ENCRYPTED),
                               !.message = ENCRYPTED]
        encrypted == AesEncrypt(key, iv, JsonStringify(cleared, SensitiveKeys))
    IN  [cleared EXCEPT !.encryptedData = <<Hex(iv), Colon, Hex(encrypted)>>]

\* A slip: phone left in the clear.
encryptSensitiveData_keepsPhone(doc, iv, secret) ==
    LET key == DeriveKey(secret)
        encrypted == AesEncrypt(key, iv, JsonStringify(doc, SensitiveKeys))
    IN  [doc EXCEPT !.encryptedData = <<Hex(iv), Colon, Hex(encrypted)>>,
                    !.name = SetName(ENCRYPTED),
                    !.email = SetEmail(ENCRYPTED),
                    !.message = ENCRYPTED]

\* contactSchema.methods.encryptSensitiveData, iv the 16 random bytes
encryptSensitiveData(doc, iv, secret) ==
    LET key == DeriveKey(secret)
        encrypted == AesEncrypt(key, iv, JsonStringify(doc, SensitiveKeys))
    IN  [doc EXCEPT !.encryptedData = <<Hex(iv), Colon, Hex(encrypted)>>,
                    !.name = SetName(ENCRYPTED),
                    !.email = SetEmail(ENCRYPTED),
                    !.phone = SetPhone(ENCRYPTED),
                    !.message = ENCRYPTED]

\* contactSchema.methods.decryptSensitiveData: null when there is no blob or
\* when anything in the try block throws
decryptSensitiveData(doc, secret) ==
    IF Falsy(doc.encryptedData) THEN Null
    ELSE LET key == DeriveKey(secret)
             parts == Split(doc.encryptedData, Colon)
         IN  IF Len(parts) < 2 \/ Len(parts[1]) # 1 \/ Len(parts[2]) # 1 THEN Null
             ELSE LET iv == parts[1][1].hex
                      decrypted == AesDecrypt(key, iv, parts[2][1].hex)
                  IN  IF decrypted.ok THEN JsonParse(decrypted.text) ELSE Null

\* A slip: the hook without its guard, encrypting on every save.
preSave_unguarded(doc, isNew, iv, secret) == encryptSensitiveData(doc, iv, secret)

\* contactSchema.pre('save')
preSave(doc, isNew, iv, secret) ==
    IF isNew /\ Falsy(doc.encryptedData) THEN encryptSensitiveData(doc, iv, secret) ELSE doc

(***************************************************************************)
(* Requests                                                                *)
(***************************************************************************)
Msg_plain == <<"n", "e", "e", "d", " ", "a", " ", "s", "o", "f", "a">>

Msg_loan == <<"l", "o", "a", "n">>

Msg_caps_short == <<"A", "B", "C", "D", "E", "F", "G">>

Msg_two_words == <<"f", "r", "e", "e", " ", "m", "o", "n", "e", "y", " ", "c", "a", "s", "i", "n", "o">>

Msg_caps_words == <<"L", "O", "A", "N", " ", "C", "R", "E", "D", "I", "T", " ", "N", "O", "W">>

Msg_hi == <<"h", "i">>

Msg_some_caps == <<"H", "E", "L", "L", "O", " ", "t", "h", "e", "r", "e">>

Msg_caps_70 == <<"A", "B", "C", "D", "E", "F", "G", "h", "i", "j">>

Msg_caps_80 == <<"A", "B", "C", "D", "E", "F", "G", "H", "i", "j">>

Msg_nine == <<"1", "2", "3", "4", "5", "6", "7", "8", "9">>

Msg_all_words == <<"c", "l", "i", "c", "k", " ", "h", "e", "r", "e", ":", " ", "v", "i", "a", "g", "r", "a", " ", "c", "a", "s", "i", "n", "o", " ", "l", "o", "a", "n", " ", "c", "r", "e", "d", "i", "t", " ", "f", "r", "e", "e", " ", "m", "o", "n", "e", "y">>

Msg_credit == <<"c", "r", "e", "d", "i", "t", "c", "a", "r", "d", " ", "o", "k">>

Msg_Loan == <<"L", "o", "a", "n">>

Msg_VIAGRA == <<"V", "I", "A", "G", "R", "A">>

Msg_ten == <<"0", "1", "2", "3", "4", "5", "6", "7", "8", "9">>

Email_ok == <<"a", "@", "b", ".", "c", "o">>

Email_test == <<"a", "@", "t", "e", "s", "t", ".", "c", "o">>

Email_temp == <<"x", "@", "t", "e", "m", "p", "-", "m", "a", "i", "l", ".", "o", "r", "g">>

Email_upper_test == <<"A", "@", "T", "E", "S", "T", ".", "c", "o">>

Email_no_tld == <<"a", "@", "b">>

Email_test_local == <<"t", "e", "s", "t", "@", "b", ".", "c", "o">>

Email_mixed == <<"A", "l", "@", "B", ".", "c", "o">>

Name_Al == <<"A", "l">>

Name_padded == <<" ", "A", "l", " ">>

Name_blank == <<" ", " ">>

Phone_ok == <<"1", "2">>

Phone_padded == <<" ", "1", "2", " ">>

Phone_long == <<"1", "2", "3", "4", "5", "6", "7", "8", "9", "0", "1", "2", "3", "4", "5", "6", "7", "8", "9", "0", "1">>

Ip_1 == <<"1", "0", ".", "0", ".", "0", ".", "1">>

Ua_1 == <<"c", "u", "r", "l">>

Str_bogus == <<"b", "o", "g", "u", "s">>

\* An incoming POST /api/contact: the JSON body, the client address and the
\* request headers.
Request(body, headers) == [body |-> body, ip |-> Ip_1, headers |-> headers]

WithAgent == [userAgent |-> Ua_1]

NoHeaders == [host |-> Ip_1]

\* The submissions of the intake pipeline: two that the schema accepts (one
\* whose name, email and phone the setters change, one scored as spam) and one
\* for each way of being rejected.
In_ham ==
    Request([name |-> Name_padded, email |-> Email_mixed, phone |-> Phone_padded,
             service |-> Str_residential, message |-> Msg_plain], WithAgent)

In_spam == Request([name |-> Name_Al, email |-> Email_test, message |-> Msg_plain], WithAgent)

In_noName == Request([email |-> Email_ok, message |-> Msg_plain], WithAgent)

In_noEmail == Request([name |-> Name_Al, message |-> Msg_plain], WithAgent)

In_noMessage == Request([name |-> Name_Al, email |-> Email_ok], WithAgent)

In_emptyMessage == Request([name |-> Name_Al, email |-> Email_ok, message |-> <<>>], WithAgent)

In_badEmail == Request([name |-> Name_Al, email |-> Email_no_tld, message |-> Msg_plain], WithAgent)

In_blankName == Request([name |-> Name_blank, email |-> Email_ok, message |-> Msg_plain], WithAgent)

In_longPhone ==
    Request([name |-> Name_Al, email |-> Email_ok, phone |-> Phone_long,
             message |-> Msg_plain], WithAgent)

In_badBudget ==
    Request([name |-> Name_Al, email |-> Email_ok, budget |-> Str_bogus,
             message |-> Msg_plain], WithAgent)

In_noAgent == Request([name |-> Name_Al, email |-> Email_ok, message |-> Msg_plain], NoHeaders)

Submissions ==
    {In_ham, In_spam, In_noName, In_noEmail, In_noMessage, In_emptyMessage, In_badEmail, In_blankName,
     In_longPhone, In_badBudget, In_noAgent}

\* The submissions the spam heuristic is exercised on.
SpamMessages ==
    {Msg_plain, Msg_loan, Msg_caps_short, Msg_two_words, Msg_caps_words, Msg_hi,
     Msg_some_caps, Msg_caps_70, Msg_caps_80, Msg_nine, Msg_all_words, Msg_credit,
     Msg_Loan, Msg_VIAGRA, Msg_ten}

SpamEmails ==
    {Email_ok, Email_test, Email_temp, Email_upper_test, Email_no_tld, Email_test_local,
     Email_mixed}

SpamSubmissions ==
    {Request([name |-> Name_Al, email |-> e, message |-> m], WithAgent) :
        e \in SpamEmails, m \in SpamMessages}
    \cup {In_noName, In_noEmail, In_noMessage, In_emptyMessage}

\* Body fields beyond the six the form has, named after stored fields.
ExtraFields ==
    {[status |-> Str_read, isSpam |-> isSpam, spamScore |-> spamScore, encryptedData |-> Str_bogus] :
        isSpam \in BOOLEAN, spamScore \in {0, 9}}
    \cup {[status |-> Str_bogus], [isSpam |-> FALSE]}

\* Two submissions, alone and with each choice of extra fields in the body.
ForgedSubmissions ==
    {In_ham, In_spam}
    \cup {[input EXCEPT !.body = extra @@ input.body] :
             input \in {In_ham, In_spam}, extra \in ExtraFields}

(***************************************************************************)
(* State                                                                   *)
(***************************************************************************)
VARIABLES
    contacts,       \* the Contact collection: _id -> document
    contactSeq,     \* number of Contact documents inserted so far (the last _id)
    notifications,  \* the Notification collection: _id -> document
    users,          \* the User collection: _id -> document
    env,            \* the optional integrations the process is configured with
    req             \* the POST /api/contact request in progress

\* The rest of the site: the state of the routers other than /api/contact.
VARIABLES
    now,            \* the wall clock, new Date()
    dels,           \* the DELETE /api/admin/users/:id requests in progress
    projects,       \* the Project collection: _id -> document
    projectSeq,     \* number of Project documents inserted so far (the last _id)
    files,          \* data/portfolio.json, data/services.json, data/slideshow.json
    preq,           \* the /api/projects write request in progress
    awrite,         \* the /api/admin flat-file write requests in progress
    uploads,        \* the files stored by the admin upload endpoint
    notificationSeq, \* number of Notification documents given an _id so far
    nreq,           \* the PUT /api/notifications/read request in progress
    posts,          \* the BlogPost collection: _id -> document
    breq,           \* the last answer of the /api/blog write routes
    torn,           \* the projects a request on which was cut off between its two writes
    seo,            \* the SEO collection: page -> document
    areq,           \* the /api/auth requests in progress
    ans             \* the last answer of the routes that answer in one step

siteVars ==
    <<now, dels, projects, projectSeq, files, preq, awrite, uploads, notificationSeq, nreq,
      posts, breq, torn, seo, areq, ans>>

vars == <<contacts, contactSeq, notifications, users, env, req, siteVars>>

\* Number of contact submissions that reach the database.
MaxContacts == 1

\* The random initialization vectors crypto.randomBytes(16) may return.
IVs == {"iv-a", "iv-b"}

\* process.env.JWT_SECRET
JWT_SECRET == "jwt-secret"

UserIds == {"u1", "u2", "u3"}

\* Two populations of the User collection: no active admin, and an active
\* admin and superadmin beside an ordinary user.
UsersNoActiveAdmin ==
    [u \in UserIds |->
        IF u = "u1" THEN [role |-> "admin", isActive |-> FALSE]
        ELSE [role |-> "user", isActive |-> TRUE]]

UsersWithAdmins ==
    [u \in UserIds |->
        CASE u = "u1" -> [role |-> "admin", isActive |-> TRUE]
          [] u = "u2" -> [role |-> "superadmin", isActive |-> TRUE]
          [] OTHER -> [role |-> "user", isActive |-> TRUE]]

IdleRequest ==
    [pc          |-> "idle",
     input       |-> Request(<<>>, <<>>),
     contactData |-> <<>>,
     contactId   |-> 0,
     recipients  |-> {},
     sheets      |-> "none",
     email       |-> "none",
     notif       |-> "none",
     resp        |-> 0,
     settledAtResponse |-> {}]

\* Number of DELETE /api/admin/users/:id requests that may be in progress together.
MaxDeletes == 2

DeleteRequests == 1..MaxDeletes

\* The /api/admin flat-file write requests that may be in progress together.
Writers == {"w1", "w2"}

IdleDelete == [pc |-> "idle", id |-> "none", role |-> "none", resp |-> 0]

\* A field the body of a request does not carry.
Absent == "(absent)"

IdleProjectRequest ==
    [pc |-> "idle", op |-> "none", id |-> 0,
     body |-> [title |-> Absent, published |-> Absent, sequence |-> Absent], resp |-> 0]

IdleWrite == [pc |-> "idle", file |-> "none", item |-> "", items |-> <<>>, resp |-> 0]

\* req.body.notificationIds: left out, or an array of ids
NoIds == [given |-> FALSE, ids |-> {}]

IdleRead ==
    [pc |-> "idle", user |-> "none", notificationIds |-> NoIds, modified |-> 0,
     unreadCount |-> 0, resp |-> 0]

NoAnswer == [op |-> "none", title |-> <<>>, category |-> Absent, resp |-> 0, id |-> 0]

EmptyFiles == [portfolio |-> <<>>, services |-> <<>>, slideshow |-> <<>>]

AuthRequests == {"a1", "a2"}

IdleAuth ==
    [pc |-> "idle", route |-> "none", username |-> "none", password |-> "none", user |-> <<>>,
     resp |-> 0, token |-> "none"]

NoReply == [route |-> "none", param |-> "none", resp |-> 0, handler |-> "none", body |-> {}]

\* The routers other than /api/contact at rest, on empty collections and files.
SiteIdle ==
    /\ now = 0
    /\ dels = [r \in DeleteRequests |-> IdleDelete]
    /\ projects = <<>>
    /\ projectSeq = 0
    /\ files = EmptyFiles
    /\ preq = IdleProjectRequest
    /\ awrite = [w \in Writers |-> IdleWrite]
    /\ uploads = {}
    /\ notificationSeq = 0
    /\ nreq = IdleRead
    /\ posts = <<>>
    /\ breq = NoAnswer
    /\ torn = {}
    /\ seo = <<>>
    /\ areq = [r \in AuthRequests |-> IdleAuth]
    /\ ans = NoReply

Init ==
    /\ contacts = <<>>
    /\ contactSeq = 0
    /\ notifications = <<>>
    /\ users \in {UsersNoActiveAdmin, UsersWithAdmins}
    /\ env \in {{}, {"sheets", "mail"}}
    /\ req = IdleRequest
    /\ SiteIdle

\* A side effect that has run to its end, whatever the outcome.
Settled(status) == status \in {"ok", "failed", "skipped"}

SettledEffects(r) ==
    {e \in {"sheets", "email", "notification"} :
        Settled(CASE e = "sheets" -> r.sheets [] e = "email" -> r.email [] OTHER -> r.notif)}

\* res.status(code).json(...), recording which side effects had already run
\* to their end when the response went out
Respond(r, code) == [r EXCEPT !.resp = code, !.pc = "done", !.settledAtResponse = SettledEffects(r)]

(***************************************************************************)
(* POST /api/contact                                                       *)
(***************************************************************************)
\* A slip: the message left out of the required-field check.
MissingRequired_noMessage(body) == Falsy(Get(body, "name")) \/ Falsy(Get(body, "email"))

\* !name || !email || !message
MissingRequired(body) ==
    Falsy(Get(body, "name")) \/ Falsy(Get(body, "email")) \/ Falsy(Get(body, "message"))

\* A slip: the whole body spread over the contact object, so that isSpam
\* and spamScore of the body replace the computed ones.
Submit_spreadBody(input) ==
    /\ req.pc = "idle"
    /\ contactSeq < MaxContacts
    /\ LET name == Get(input.body, "name")
           email == Get(input.body, "email")
           message == Get(input.body, "message")
       IN  IF MissingRequired(input.body)
           THEN req' = Respond([req EXCEPT !.input = input], 400)
           ELSE LET data == [name      |-> name,
                             email     |-> email,
                             phone     |-> OrElse(Get(input.body, "phone"), <<>>),
                             service   |-> OrElse(Get(input.body, "service"), <<>>),
                             budget    |-> OrElse(Get(input.body, "budget"), <<>>),
                             message   |-> message,
                             ipAddress |-> input.ip,
                             userAgent |-> Get(input.headers, "userAgent")]
                    spamCheck == detectSpam(data)
                IN  req' = [req EXCEPT !.input = input,
                                       !.pc = "saving",
                                       !.contactData =
                                           [k \in DOMAIN data \cup {"isSpam", "spamScore"} |->
                                               CASE k \in {"isSpam", "spamScore"}
                                                        /\ k \in DOMAIN input.body -> input.body[k]
                                                 [] k = "isSpam" -> spamCheck.isSpam
                                                 [] k = "spamScore" -> spamCheck.spamScore
                                                 [] OTHER -> data[k]]]
    /\ UNCHANGED <<contacts, contactSeq, notifications, users, env, siteVars>>

\* The handler up to its first suspension point: the required-field check,
\* the contact object, the spam check, and the call of contact.save().
Submit(input) ==
    /\ req.pc = "idle"
    /\ contactSeq < MaxContacts
    /\ LET name == Get(input.body, "name")
           email == Get(input.body, "email")
           message == Get(input.body, "message")
       IN  IF MissingRequired(input.body)
           THEN req' = Respond([req EXCEPT !.input = input], 400)
           ELSE LET data == [name      |-> name,
                             email     |-> email,
                             phone     |-> OrElse(Get(input.body, "phone"), <<>>),
                             service   |-> OrElse(Get(input.body, "service"), <<>>),
                             budget    |-> OrElse(Get(input.body, "budget"), <<>>),
                             message   |-> message,
                             ipAddress |-> input.ip,
                             userAgent |-> Get(input.headers, "userAgent")]
                    spamCheck == detectSpam(data)
                IN  req' = [req EXCEPT !.input = input,
                                       !.pc = "saving",
                                       !.contactData =
                                           [k \in DOMAIN data \cup {"isSpam", "spamScore"} |->
                                               CASE k = "isSpam" -> spamCheck.isSpam
                                                 [] k = "spamScore" -> spamCheck.spamScore
                                                 [] OTHER -> data[k]]]
    /\ UNCHANGED <<contacts, contactSeq, notifications, users, env, siteVars>>

\* users that User.find({role: {$in: ['admin', 'superadmin']}, isActive: true}) returns
ActiveAdmins == {u \in DOMAIN users : users[u].role \in {"admin", "superadmin"} /\ users[u].isActive}

\* addToGoogleSheets(contactData), up to its first await: returns at once when
\* the integration is not configured, otherwise the append is in flight
StartSheets == IF "sheets" \in env THEN "pending" ELSE "skipped"

\* sendEmailNotification(contactData), up to its first await
StartEmail == IF "mail" \in env THEN "pending" ELSE "skipped"

\* A slip: the spreadsheet append started for spam too.
AfterSave_sheetsAlways(r, id) ==
    [r EXCEPT !.contactId = id,
              !.sheets = StartSheets,
              !.email = StartEmail,
              !.notif = "lookup",
              !.pc = "findingAdmins"]

\* The handler after a successful save, up to the await of User.find: the
\* spreadsheet append (non-spam only) and the mail are started and left to run.
AfterSave(r, id) ==
    [r EXCEPT !.contactId = id,
              !.sheets = IF ~r.contactData.isSpam THEN StartSheets ELSE "none",
              !.email = StartEmail,
              !.notif = "lookup",
              !.pc = "findingAdmins"]

\* await contact.save() resolves: the validators pass, the pre('save') hook
\* encrypts, the document is inserted.
SaveOk(iv) ==
    /\ req.pc = "saving"
    /\ LET doc == NewContact(req.contactData)
           id == contactSeq + 1
       IN  /\ contactSchemaValid(doc)
           /\ contacts' = (id :> preSave(doc, TRUE, iv, JWT_SECRET)) @@ contacts
           /\ contactSeq' = id
           /\ req' = AfterSave(req, id)
    /\ UNCHANGED <<notifications, users, env, siteVars>>

\* A slip: the mail started before the save is awaited, so that a failed
\* save leaves it running.
SaveFail_mailFirst(cause) ==
    /\ req.pc = "saving"
    /\ (cause = "validation") = ~contactSchemaValid(NewContact(req.contactData))
    /\ req' = Respond([req EXCEPT !.email = StartEmail], 500)
    /\ UNCHANGED <<contacts, contactSeq, notifications, users, env, siteVars>>

\* await contact.save() rejects: with a ValidationError when the document
\* fails the schema, otherwise because the database refuses the write. The
\* catch block answers 500.
SaveFail(cause) ==
    /\ req.pc = "saving"
    /\ (cause = "validation") = ~contactSchemaValid(NewContact(req.contactData))
    /\ req' = Respond(req, 500)
    /\ UNCHANGED <<contacts, contactSeq, notifications, users, env, siteVars>>

\* The spreadsheet append ends; a failure is caught and logged inside
\* addToGoogleSheets.
SheetsSettle(ok) ==
    /\ req.sheets = "pending"
    /\ req' = [req EXCEPT !.sheets = IF ok THEN "ok" ELSE "failed"]
    /\ UNCHANGED <<contacts, contactSeq, notifications, users, env, siteVars>>

\* transporter.sendMail ends; a failure is caught and logged inside
\* sendEmailNotification.
EmailSettle(ok) ==
    /\ req.email = "pending"
    /\ req' = [req EXCEPT !.email = IF ok THEN "ok" ELSE "failed"]
    /\ UNCHANGED <<contacts, contactSeq, notifications, users, env, siteVars>>

\* await User.find(...) ends. A rejection is caught and the handler answers;
\* with no active admin nothing is created and the handler answers; otherwise
\* createSystemNotification is called and awaited.
FindAdmins(ok) ==
    /\ req.pc = "findingAdmins"
    /\ req' = IF ~ok THEN Respond([req EXCEPT !.notif = "failed"], 201)
              ELSE IF ActiveAdmins = {} THEN Respond([req EXCEPT !.notif = "skipped"], 201)
              ELSE [req EXCEPT !.notif = "pending", !.recipients = ActiveAdmins, !.pc = "notifying"]
    /\ UNCHANGED <<contacts, contactSeq, notifications, users, env, siteVars>>

\* Notification.createSystemNotification: one document per recipient
createSystemNotification(recipients, data) ==
    LET order == CHOOSE s \in [1..Cardinality(recipients) -> recipients] :
                     \A i, j \in DOMAIN s : i # j => s[i] # s[j]
        first == Len(notifications)
    IN  [i \in 1..(first + Len(order)) |->
            IF i <= first THEN notifications[i]
            ELSE [k \in DOMAIN data \cup {"recipient"} |->
                     IF k = "recipient" THEN order[i - first] ELSE data[k]]]

\* A slip: a rejected insert left uncaught, so that the outer catch answers 500.
NotifyComplete_uncaught(ok) ==
    /\ req.pc = "notifying"
    /\ notifications' =
          IF ok
          THEN createSystemNotification(req.recipients,
                   [type |-> "contact", category |-> "contact", priority |-> "high",
                    relatedId |-> req.contactId, relatedModel |-> "Contact", read |-> FALSE])
          ELSE notifications
    /\ req' = Respond([req EXCEPT !.notif = IF ok THEN "ok" ELSE "failed"],
                      IF ok THEN 201 ELSE 500)
    /\ UNCHANGED <<contacts, contactSeq, users, env, siteVars>>

\* await Notification.createSystemNotification(...) ends, the documents
\* inserted or the insert rejected (caught and logged); then the handler
\* answers 201.
NotifyComplete(ok) ==
    /\ req.pc = "notifying"
    /\ notifications' =
          IF ok
          THEN createSystemNotification(req.recipients,
                   [type |-> "contact", category |-> "contact", priority |-> "high",
                    relatedId |-> req.contactId, relatedModel |-> "Contact", read |-> FALSE])
          ELSE notifications
    /\ req' = Respond([req EXCEPT !.notif = IF ok THEN "ok" ELSE "failed"], 201)
    /\ UNCHANGED <<contacts, contactSeq, users, env, siteVars>>

\* The request is over: the response is out and no detached side effect of
\* it is still running.
Finish ==
    /\ req.pc = "done"
    /\ req.sheets # "pending"
    /\ req.email # "pending"
    /\ req' = IdleRequest
    /\ UNCHANGED <<contacts, contactSeq, notifications, users, env, siteVars>>

(***************************************************************************)
(* Admin operations on stored contacts                                     *)
(***************************************************************************)
\* The credentials a caller may present.
Credentials == {"none", "user", "admin"}

\* protect, admin: only an admin's bearer token passes
IsAdmin(cred) == cred = "admin"

\* save() of a loaded document: the validators run (on the modified paths
\* only, or on every loaded path: allPaths), then the pre('save') hook with
\* isNew false; the document is written when the validators pass.
SaveLoaded(doc, allPaths) ==
    LET valid == IF allPaths THEN contactSchemaValid(doc) ELSE InEnum(doc.status, StatusEnum)
    IN  [ok |-> valid, doc |-> preSave(doc, FALSE, CHOOSE iv \in IVs : TRUE, JWT_SECRET)]

\* The body of PUT /api/contact/:id (PUT /api/admin/contacts/:id in
\* routes/admin.js is the same text): the collection after the handler has run.
updateStatus(id, body, allPaths) ==
    IF id \notin DOMAIN contacts THEN contacts
    ELSE LET status == Get(body, "status")
             contact == IF ~Falsy(status) THEN [contacts[id] EXCEPT !.status = status]
                        ELSE contacts[id]
             saved == SaveLoaded(contact, allPaths)
         IN  IF saved.ok THEN [contacts EXCEPT ![id] = saved.doc] ELSE contacts

StatusBodies == {[status |-> Str_read], [status |-> Str_bogus], [note |-> Str_read]}

\* PUT /api/contact/:id (protect, admin)
PutContact(cred, id, body) ==
    /\ \E allPaths \in BOOLEAN :
          contacts' = IF IsAdmin(cred) THEN updateStatus(id, body, allPaths) ELSE contacts
    /\ UNCHANGED <<contactSeq, notifications, users, env, req, siteVars>>

\* DELETE /api/contact/:id (protect, admin): contact.remove() deletes the
\* document where the installed ODM still has Document.prototype.remove, and
\* throws a TypeError that leaves the collection as it was where it has not.
DeleteContact(cred, id, hasRemove) ==
    /\ contacts' = IF IsAdmin(cred) /\ id \in DOMAIN contacts /\ hasRemove
                   THEN [k \in DOMAIN contacts \ {id} |-> contacts[k]]
                   ELSE contacts
    /\ UNCHANGED <<contactSeq, notifications, users, env, req, siteVars>>

ContactIds == 1..MaxContacts

Next ==
    \/ \E input \in Submissions : Submit(input)
    \/ \E iv \in IVs : SaveOk(iv)
    \/ \E cause \in {"validation", "database"} : SaveFail(cause)
    \/ \E ok \in BOOLEAN : SheetsSettle(ok)
    \/ \E ok \in BOOLEAN : EmailSettle(ok)
    \/ \E ok \in BOOLEAN : FindAdmins(ok)
    \/ \E ok \in BOOLEAN : NotifyComplete(ok)
    \/ Finish
    \/ \E cred \in Credentials, id \in ContactIds, body \in StatusBodies :
          PutContact(cred, id, body)
    \/ \E cred \in Credentials, id \in ContactIds, hasRemove \in BOOLEAN :
          DeleteContact(cred, id, hasRemove)

Spec == Init /\ [][Next]_vars

\* The spam heuristic alone, on a wider set of submissions: each is taken as
\* far as the call of save().
SpamNext ==
    \/ \E input \in SpamSubmissions : Submit(input)
    \/ Finish

SpamSpec == Init /\ [][SpamNext]_vars

\* The handler on submissions that carry extra body fields.
ForgedNext ==
    \/ \E input \in ForgedSubmissions : Submit(input)
    \/ \E iv \in IVs : SaveOk(iv)
    \/ \E cause \in {"validation", "database"} : SaveFail(cause)
    \/ \E ok \in BOOLEAN : SheetsSettle(ok)
    \/ \E ok \in BOOLEAN : EmailSettle(ok)
    \/ \E ok \in BOOLEAN : FindAdmins(ok)
    \/ \E ok \in BOOLEAN : NotifyComplete(ok)
    \/ Finish

ForgedSpec == Init /\ [][ForgedNext]_vars

(***************************************************************************)
(* DELETE /api/admin/users/:id                                             *)
(***************************************************************************)
contactVars == <<contacts, contactSeq, env, req>>

\* The contact pipeline at rest on an empty collection.
ContactIdle ==
    /\ contacts = <<>>
    /\ contactSeq = 0
    /\ env = {}
    /\ req = IdleRequest

\* protect followed by admin or by checkPermission(permission): 401 without
\* a bearer token, 403 with the token of a user who is no admin, and the
\* handler runs (0) with an admin's token.
checkPermission(cred, permission) ==
    IF cred = "none" THEN 401 ELSE IF IsAdmin(cred) THEN 0 ELSE 403

\* A User collection with two superadmins beside an ordinary user.
UsersTwoSuperadmins ==
    [u \in UserIds |->
        IF u \in {"u1", "u2"} THEN [role |-> "superadmin", isActive |-> TRUE]
        ELSE [role |-> "user", isActive |-> TRUE]]

\* The ids a DELETE may name: the users, and one id no user has.
TargetIds == UserIds \cup {"u9"}

\* the documents User.countDocuments({ role: 'superadmin' }) counts
Superadmins == {u \in DOMAIN users : users[u].role = "superadmin"}

notUsers ==
    <<contactVars, notifications, now, projects, projectSeq, files, preq, awrite,
      uploads, notificationSeq, nreq, posts, breq, torn, seo, areq, ans>>

AnswerDelete(d, code) == [d EXCEPT !.pc = "done", !.resp = code]

\* The middlewares, and the handler up to await User.findById.
DeleteUserBegin(r, cred, id) ==
    /\ dels[r].pc = "idle"
    /\ LET gate == checkPermission(cred, "manage_users")
           d == [IdleDelete EXCEPT !.id = id]
       IN  dels' = [dels EXCEPT ![r] = IF gate # 0 THEN AnswerDelete(d, gate)
                                       ELSE [d EXCEPT !.pc = "finding"]]
    /\ UNCHANGED <<users, notUsers>>

\* user.remove() is called: the deletion is under way where the installed
\* ODM still has Document.prototype.remove; where it has not, the call
\* throws a TypeError and the error handler answers 500.
CallRemove(d, hasRemove) ==
    IF hasRemove THEN [d EXCEPT !.pc = "removing"] ELSE AnswerDelete(d, 500)

\* findById resolves: 404 for no user; for a superadmin the count is asked
\* for; for any other user remove() is called.
DeleteUserFound(r, hasRemove) ==
    /\ dels[r].pc = "finding"
    /\ LET d == dels[r]
       IN  dels' = [dels EXCEPT ![r] =
                       IF d.id \notin DOMAIN users THEN AnswerDelete(d, 404)
                       ELSE LET user == [d EXCEPT !.role = users[d.id].role]
                            IN  IF user.role = "superadmin"
                                THEN [user EXCEPT !.pc = "counting"]
                                ELSE CallRemove(user, hasRemove)]
    /\ UNCHANGED <<users, notUsers>>

\* countDocuments resolves: 400 when it counted at most one superadmin,
\* otherwise remove() is called.
DeleteUserCounted(r, hasRemove) ==
    /\ dels[r].pc = "counting"
    /\ LET superadminCount == Cardinality(Superadmins)
       IN  dels' = [dels EXCEPT ![r] =
                       IF superadminCount <= 1 THEN AnswerDelete(dels[r], 400)
                       ELSE CallRemove(dels[r], hasRemove)]
    /\ UNCHANGED <<users, notUsers>>

\* remove() resolves: the document is gone and the handler answers 200.
DeleteUserRemoved(r) ==
    /\ dels[r].pc = "removing"
    /\ users' = [u \in DOMAIN users \ {dels[r].id} |-> users[u]]
    /\ dels' = [dels EXCEPT ![r] = AnswerDelete(dels[r], 200)]
    /\ UNCHANGED notUsers

\* The answer is out and the request is over.
DeleteUserFinish(r) ==
    /\ dels[r].pc = "done"
    /\ dels' = [dels EXCEPT ![r] = IdleDelete]
    /\ UNCHANGED <<users, notUsers>>

UsersInit ==
    /\ ContactIdle
    /\ notifications = <<>>
    /\ users \in {UsersWithAdmins, UsersTwoSuperadmins}
    /\ SiteIdle

\* Requests to delete users, any number of them in progress together.
UsersNext ==
    \/ \E r \in DeleteRequests, cred \in Credentials, id \in TargetIds :
          DeleteUserBegin(r, cred, id)
    \/ \E r \in DeleteRequests, hasRemove \in BOOLEAN : DeleteUserFound(r, hasRemove)
    \/ \E r \in DeleteRequests, hasRemove \in BOOLEAN : DeleteUserCounted(r, hasRemove)
    \/ \E r \in DeleteRequests : DeleteUserRemoved(r)
    \/ \E r \in DeleteRequests : DeleteUserFinish(r)

UsersSpec == UsersInit /\ [][UsersNext]_vars

\* Requests to delete users, one at a time: a request begins only when no
\* other is in progress.
UsersSeqNext ==
    \/ \E r \in DeleteRequests, cred \in Credentials, id \in TargetIds :
          /\ \A q \in DeleteRequests : dels[q].pc = "idle"
          /\ DeleteUserBegin(r, cred, id)
    \/ \E r \in DeleteRequests, hasRemove \in BOOLEAN : DeleteUserFound(r, hasRemove)
    \/ \E r \in DeleteRequests, hasRemove \in BOOLEAN : DeleteUserCounted(r, hasRemove)
    \/ \E r \in DeleteRequests : DeleteUserRemoved(r)
    \/ \E r \in DeleteRequests : DeleteUserFinish(r)

UsersSeqSpec == UsersInit /\ [][UsersSeqNext]_vars

(***************************************************************************)
(* The flat JSON lists: POST /api/admin/{portfolio,slideshow},             *)
(* /api/slideshow, and the admin uploads                                   *)
(***************************************************************************)
\* Number of entries a list may grow to.
MaxItems == 2

Titles == {"Loft", "Villa"}

Images == {"a.jpg", "b.jpg"}

\* A body without an image, or with an empty one.
NoImage == ""

FileNames == {"portfolio", "slideshow"}

\* The id of a list entry: a number, the string of a document _id, or the
\* null that JSON.stringify writes for NaN.
NumId(n) == [kind |-> "num", n |-> n]

OidId(n) == [kind |-> "oid", n |-> n]

NullId == [kind |-> "null", n |-> 0]

Max(S) == CHOOSE m \in S : \A k \in S : k <= m

\* Math.max(...items.map(i => i.id), 0) + 1 as it is written to the file: the
\* string of a document _id makes the maximum NaN, a null id counts as 0
NewId(items) ==
    IF \E i \in DOMAIN items : items[i].id.kind = "oid" THEN NullId
    ELSE NumId(Max({0} \cup {items[i].id.n : i \in DOMAIN items}) + 1)

\* What POST /api/admin/<file> does to the list it has read, and the status
\* it answers at once when it writes nothing (0: it goes on to write):
\* portfolio pushes { ...req.body, id: newId }; slideshow answers 400
\* without an image and pushes the image otherwise.
Push(file, items, item) ==
    IF file = "portfolio"
    THEN [code |-> 0, items |-> Append(items, [id |-> NewId(items), title |-> item])]
    ELSE IF item = NoImage THEN [code |-> 400, items |-> items]
    ELSE [code |-> 0, items |-> Append(items, item)]

\* items.splice(idx, 1), idx counted from 0
Splice(items, idx) == [i \in 1..(Len(items) - 1) |-> IF i <= idx THEN items[i] ELSE items[i + 1]]

notFiles ==
    <<contactVars, notifications, users, now, dels, projects, projectSeq, preq,
      notificationSeq, nreq, posts, breq, torn, seo, areq, ans>>

\* The answer goes out: the request keeps what it asked for when it is
\* answered with success, and nothing otherwise.
AnswerWrite(a, code) ==
    IF code = 200 THEN [a EXCEPT !.pc = "done", !.resp = code, !.items = <<>>]
    ELSE [IdleWrite EXCEPT !.pc = "done", !.resp = code]

\* The longest a list can become by the requests in progress: the longest
\* copy of it there is, in the file or held by a handler about to write it,
\* and one more entry for every handler still to read it.
Reach(file) ==
    Max({Len(files[file])}
        \cup {Len(awrite[w].items) : w \in {v \in Writers : awrite[v].file = file}})
    + Cardinality({w \in Writers : awrite[w].pc = "reading" /\ awrite[w].file = file})

HasRoom(file) == Reach(file) < MaxItems

\* router.use(protect, admin), and the handler up to await readJson(file).
AdminPostBegin(w, cred, file, item) ==
    /\ awrite[w].pc = "idle"
    /\ HasRoom(file)
    /\ LET gate == checkPermission(cred, "admin")
           a == [IdleWrite EXCEPT !.file = file, !.item = item]
       IN  awrite' = [awrite EXCEPT ![w] = IF gate # 0 THEN AnswerWrite(a, gate)
                                           ELSE [a EXCEPT !.pc = "reading"]]
    /\ UNCHANGED <<files, uploads, notFiles>>

\* readJson resolves with the list as it is now, the handler changes its copy
\* and calls writeJson; or readJson rejects and the catch answers 500.
AdminPostRead(w, ok) ==
    /\ awrite[w].pc = "reading"
    /\ LET a == awrite[w]
           m == Push(a.file, files[a.file], a.item)
       IN  awrite' = [awrite EXCEPT ![w] =
                         IF ~ok THEN AnswerWrite(a, 500)
                         ELSE IF m.code # 0 THEN AnswerWrite(a, m.code)
                         ELSE [a EXCEPT !.pc = "writing", !.items = m.items]]
    /\ UNCHANGED <<files, uploads, notFiles>>

\* A slip: the write made as under a lock held since before the read, the
\* entry pushed onto the list as it is at the time of the write.
AdminPostWritten_locked(w, ok) ==
    /\ awrite[w].pc = "writing"
    /\ LET a == awrite[w]
       IN  /\ files' = IF ok
                       THEN [files EXCEPT ![a.file] = Push(a.file, files[a.file], a.item).items]
                       ELSE files
           /\ awrite' = [awrite EXCEPT ![w] = AnswerWrite(a, IF ok THEN 200 ELSE 500)]
    /\ UNCHANGED <<uploads, notFiles>>

\* writeJson resolves, the file replaced by the handler's copy, and the
\* handler answers; or it rejects and the catch answers 500.
AdminPostWritten(w, ok) ==
    /\ awrite[w].pc = "writing"
    /\ LET a == awrite[w]
       IN  /\ files' = IF ok THEN [files EXCEPT ![a.file] = a.items] ELSE files
           /\ awrite' = [awrite EXCEPT ![w] = AnswerWrite(a, IF ok THEN 200 ELSE 500)]
    /\ UNCHANGED <<uploads, notFiles>>

AdminPostFinish(w) ==
    /\ awrite[w].pc = "done"
    /\ awrite' = [awrite EXCEPT ![w] = IdleWrite]
    /\ UNCHANGED <<files, uploads, notFiles>>

\* readSlideshow: the list, or [] when the file cannot be read or parsed
readSlideshow(ok) == IF ok THEN files.slideshow ELSE <<>>

\* POST /api/slideshow of routes/slideshow.js: no middleware stands before
\* the handler, which reads and writes synchronously.
SlideshowPost(cred, image, ok) ==
    /\ HasRoom("slideshow")
    /\ files' = IF image = NoImage THEN files
                ELSE [files EXCEPT !.slideshow = Append(readSlideshow(ok), image)]
    /\ UNCHANGED <<awrite, uploads, notFiles>>

\* DELETE /api/slideshow/:idx of routes/slideshow.js, no middleware either.
SlideshowDelete(cred, idx, ok) ==
    /\ LET data == readSlideshow(ok)
       IN  files' = IF idx < 0 \/ idx >= Len(data) THEN files
                   ELSE [files EXCEPT !.slideshow = Splice(data, idx)]
    /\ UNCHANGED <<awrite, uploads, notFiles>>

Uploads == {"sofa.png"}

\* POST /api/admin/upload (protect, admin in the route) and POST
\* /api/admin/upload-cloudinary, which server.js registers after the admin
\* router: the request first passes the router's use(protect, admin).
Upload(cred, file) ==
    /\ uploads' = IF checkPermission(cred, "admin") = 0 THEN uploads \cup {file} ELSE uploads
    /\ UNCHANGED <<files, awrite, notFiles>>

FilesInit ==
    /\ ContactIdle
    /\ notifications = <<>>
    /\ users = UsersWithAdmins
    /\ SiteIdle

\* The entries a POST may carry for a list.
ItemsFor(file) == IF file = "portfolio" THEN Titles ELSE Images \cup {NoImage}

\* Every write route of the flat lists, and the uploads.
FilesNext ==
    \/ \E w \in Writers, cred \in Credentials, file \in FileNames :
          \E item \in ItemsFor(file) : AdminPostBegin(w, cred, file, item)
    \/ \E w \in Writers, ok \in BOOLEAN : AdminPostRead(w, ok)
    \/ \E w \in Writers, ok \in BOOLEAN : AdminPostWritten(w, ok)
    \/ \E w \in Writers : AdminPostFinish(w)
    \/ \E cred \in Credentials, image \in Images \cup {NoImage}, ok \in BOOLEAN :
          SlideshowPost(cred, image, ok)
    \/ \E cred \in Credentials, idx \in 0..MaxItems, ok \in BOOLEAN :
          SlideshowDelete(cred, idx, ok)
    \/ \E cred \in Credentials, file \in Uploads : Upload(cred, file)

FilesSpec == FilesInit /\ [][FilesNext]_vars

\* No other list has been written or is being written.
OnlyFile(file) ==
    \A f \in FileNames \ {file} :
        files[f] = <<>> /\ \A w \in Writers : awrite[w].file # f

\* The admin POST requests alone, all of a run on one list.
WritersNext ==
    \/ \E w \in Writers, cred \in Credentials, file \in FileNames :
          \E item \in ItemsFor(file) : OnlyFile(file) /\ AdminPostBegin(w, cred, file, item)
    \/ \E w \in Writers, ok \in BOOLEAN : AdminPostRead(w, ok)
    \/ \E w \in Writers, ok \in BOOLEAN : AdminPostWritten(w, ok)
    \/ \E w \in Writers : AdminPostFinish(w)

WritersSpec == FilesInit /\ [][WritersNext]_vars

(***************************************************************************)
(* /api/projects and the portfolio list                                    *)
(***************************************************************************)
\* Number of projects created.
MaxProjects == 1

ProjectIds == 1..MaxProjects

\* The error middleware, given what asyncHandler caught: 400 for a
\* validation failure, 500 for anything unexpected.
errorHandler(cause) == IF cause = "validation" THEN 400 ELSE 500

\* parseInt of the digit strings the bodies carry
ParseInt(s) == CASE s = "0" -> 0 [] s = "1" -> 1 [] s = "2" -> 2

\* The project data POST /api/projects builds from the body (the views
\* counter and the fields the portfolio does not mirror are left out).
NewProject(body) ==
    [title     |-> body.title,
     published |-> body.published = "true",
     sequence  |-> IF body.sequence # Absent THEN ParseInt(body.sequence) ELSE 0]

\* title: required
projectSchemaValid(doc) == doc.title # Absent

\* The fields PUT /api/projects/:id takes from the body.
ApplyBody(project, body) ==
    [title     |-> IF body.title # Absent THEN body.title ELSE project.title,
     published |-> IF body.published # Absent THEN body.published = "true"
                   ELSE project.published,
     sequence  |-> IF body.sequence # Absent THEN ParseInt(body.sequence)
                   ELSE project.sequence]

\* item.sequence || 0
Sequence(item) == IF "sequence" \in DOMAIN item THEN item.sequence ELSE 0

\* The last entry put in its place among entries already in order.
Insert(sorted, item) ==
    LET k == Cardinality({i \in DOMAIN sorted : Sequence(sorted[i]) <= Sequence(item)})
    IN  SubSeq(sorted, 1, k) \o <<item>> \o SubSeq(sorted, k + 1, Len(sorted))

RECURSIVE SortBySequence(_)
\* portfolioData.sort((a, b) => (a.sequence || 0) - (b.sequence || 0)), stable
SortBySequence(items) ==
    IF items = <<>> THEN <<>>
    ELSE Insert(SortBySequence(SubSeq(items, 1, Len(items) - 1)), items[Len(items)])

\* { ...a, ...b }
Merge(a, b) == [k \in DOMAIN a \cup DOMAIN b |-> IF k \in DOMAIN b THEN b[k] ELSE a[k]]

\* The positions of the entries whose id is the project's, as a string.
EntriesOf(portfolioData, projectId) ==
    {i \in DOMAIN portfolioData : portfolioData[i].id = OidId(projectId)}

\* syncProjectWithPortfolio, from the list read to the list written: the
\* entry of the project replaces the first entry with its id or is pushed,
\* then the list is sorted by sequence.
syncProjectWithPortfolio(portfolioData, projectData, projectId) ==
    LET existing == EntriesOf(portfolioData, projectId)
        portfolioEntry == [id       |-> OidId(projectId),
                           title    |-> projectData.title,
                           sequence |-> projectData.sequence]
    IN  SortBySequence(
            IF existing # {}
            THEN LET existingIndex == CHOOSE i \in existing : \A j \in existing : i <= j
                 IN  [portfolioData EXCEPT
                         ![existingIndex] = Merge(portfolioData[existingIndex], portfolioEntry)]
            ELSE Append(portfolioData, portfolioEntry))

\* removeProjectFromPortfolio, from the list read to the list written
removeProjectFromPortfolio(portfolioData, projectId) ==
    SelectSeq(portfolioData, LAMBDA item : item.id # OidId(projectId))

\* GET /api/projects: Project.find({ published: true })
getProjects == {id \in DOMAIN projects : projects[id].published}

\* GET /api/projects/:id: the status answered; an unpublished project is
\* shown only to a caller whose role is admin
getProject(cred, id) ==
    IF id \notin DOMAIN projects THEN 404
    ELSE IF ~projects[id].published /\ cred # "admin" THEN 404
    ELSE 200

\* GET /api/portfolio: the list as it is in the file
getPortfolio == files.portfolio

\* GET /api/project/:id: the entries whose id is the number parseInt reads
getPortfolioProject(n) == {i \in DOMAIN files.portfolio : files.portfolio[i].id = NumId(n)}

\* parseInt(req.params.id) for the text of an entry's id, as the numbers it
\* may give (0 stands for NaN, which no id equals): the number itself for a
\* number, NaN for "null", and for the hex string of a document _id the
\* number its leading decimal digits spell, or NaN when it starts with a letter
parseInt(id) ==
    CASE id.kind = "num" -> {id.n}
      [] id.kind = "oid" -> 0..(MaxItems + 1)
      [] OTHER -> {0}

\* GET /api/project/:id with the id of entry i of the list as its parameter:
\* whether every run of data.find(item => item.id === projectId) gives entry i
FetchedById(i) ==
    \A n \in parseInt(files.portfolio[i].id) :
        /\ getPortfolioProject(n) # {}
        /\ \A k \in getPortfolioProject(n) : k >= i
        /\ i \in getPortfolioProject(n)

notProjects ==
    <<contactVars, notifications, users, now, dels, uploads, notificationSeq, nreq, posts, breq,
      seo, areq, ans>>

\* The answer goes out; the body has been dealt with.
AnswerProject(p, code) ==
    [p EXCEPT !.pc = "done", !.resp = code, !.body = IdleProjectRequest.body]

\* protect, admin, and the handler up to its first await: Project.create
\* for POST, Project.findById for PUT and DELETE, findByIdAndUpdate for
\* PUT /sequence.
ProjectBegin(cred, op, id, body) ==
    /\ preq.pc = "idle"
    /\ op = "create" => projectSeq < MaxProjects
    /\ LET gate == checkPermission(cred, "admin")
       IN  preq' = IF gate # 0 THEN AnswerProject(IdleProjectRequest, gate)
                   ELSE [IdleProjectRequest EXCEPT
                            !.op = op, !.id = id, !.body = body,
                            !.pc = IF op = "create" THEN "creating" ELSE "finding"]
    /\ UNCHANGED <<projects, projectSeq, files, awrite, torn, notProjects>>

\* Project.create resolves with the document inserted, or rejects: with a
\* ValidationError, or because the database refuses the write.
ProjectCreated(ok) ==
    /\ preq.pc = "creating"
    /\ LET doc == NewProject(preq.body)
           id == projectSeq + 1
       IN  IF projectSchemaValid(doc) /\ ok
           THEN /\ projects' = (id :> doc) @@ projects
                /\ projectSeq' = id
                /\ preq' = [preq EXCEPT !.id = id, !.pc = "syncing",
                                         !.body = IdleProjectRequest.body]
           ELSE /\ preq' = AnswerProject(preq, errorHandler(IF projectSchemaValid(doc)
                                                             THEN "database" ELSE "validation"))
                /\ UNCHANGED <<projects, projectSeq>>
    /\ UNCHANGED <<files, awrite, torn, notProjects>>

\* PUT: findById resolves; 404 for no project, else the fields of the body
\* are set and project.save() is called.
ProjectUpdateFound ==
    /\ preq.pc = "finding"
    /\ preq.op = "update"
    /\ preq' = IF preq.id \notin DOMAIN projects THEN AnswerProject(preq, 404)
               ELSE [preq EXCEPT !.pc = "saving"]
    /\ UNCHANGED <<projects, projectSeq, files, awrite, torn, notProjects>>

\* PUT: project.save() resolves with the document written, or rejects.
ProjectSaved(ok) ==
    /\ preq.pc = "saving"
    /\ IF ok /\ preq.id \in DOMAIN projects
       THEN /\ projects' = [projects EXCEPT ![preq.id] = ApplyBody(@, preq.body)]
            /\ preq' = [preq EXCEPT !.pc = "syncing", !.body = IdleProjectRequest.body]
       ELSE /\ preq' = AnswerProject(preq, errorHandler("database"))
            /\ UNCHANGED projects
    /\ UNCHANGED <<projectSeq, files, awrite, torn, notProjects>>

\* POST and PUT after the database write: syncProjectWithPortfolio reads and
\* rewrites portfolio.json in one synchronous run, or fails and only logs;
\* the handler answers with success either way.
ProjectSynced(ok) ==
    /\ preq.pc = "syncing"
    /\ files' = IF ok /\ preq.id \in DOMAIN projects
                THEN [files EXCEPT !.portfolio =
                         syncProjectWithPortfolio(@, projects[preq.id], preq.id)]
                ELSE files
    /\ preq' = AnswerProject(preq, IF preq.op = "create" THEN 201 ELSE 200)
    /\ UNCHANGED <<projects, projectSeq, awrite, torn, notProjects>>

\* DELETE: findById resolves; 404 for no project, else
\* removeProjectFromPortfolio rewrites portfolio.json (or fails and only
\* logs) and project.remove() is called, which throws where the installed
\* ODM has no Document.prototype.remove.
ProjectDeleteFound(ok, hasRemove) ==
    /\ preq.pc = "finding"
    /\ preq.op = "delete"
    /\ IF preq.id \notin DOMAIN projects
       THEN /\ preq' = AnswerProject(preq, 404)
            /\ UNCHANGED files
       ELSE /\ files' = IF ok
                        THEN [files EXCEPT !.portfolio = removeProjectFromPortfolio(@, preq.id)]
                        ELSE files
            /\ preq' = IF hasRemove THEN [preq EXCEPT !.pc = "removing"]
                       ELSE AnswerProject(preq, errorHandler("type"))
    /\ UNCHANGED <<projects, projectSeq, awrite, torn, notProjects>>

\* DELETE: project.remove() resolves, the document gone.
ProjectRemoved ==
    /\ preq.pc = "removing"
    /\ projects' = [id \in DOMAIN projects \ {preq.id} |-> projects[id]]
    /\ preq' = AnswerProject(preq, 200)
    /\ UNCHANGED <<projectSeq, files, awrite, torn, notProjects>>

\* PUT /api/projects/sequence with one { id, sequence }: findByIdAndUpdate
\* sets the sequence of the document if there is one and resolves, or
\* rejects; portfolio.json is not touched.
ProjectSequenced(ok) ==
    /\ preq.pc = "finding"
    /\ preq.op = "sequence"
    /\ projects' = IF ok /\ preq.id \in DOMAIN projects
                   THEN [projects EXCEPT ![preq.id].sequence = ParseInt(preq.body.sequence)]
                   ELSE projects
    /\ preq' = AnswerProject(preq, IF ok THEN 200 ELSE 500)
    /\ UNCHANGED <<projectSeq, files, awrite, torn, notProjects>>

ProjectFinish ==
    /\ preq.pc = "done"
    /\ preq' = IdleProjectRequest
    /\ UNCHANGED <<projects, projectSeq, files, awrite, torn, notProjects>>

\* A slip: a start-up step that rebuilds portfolio.json from the collection.
Crash_reconciles ==
    /\ preq.pc # "idle" \/ \E w \in Writers : awrite[w].pc # "idle"
    /\ preq' = IdleProjectRequest
    /\ awrite' = [w \in Writers |-> IdleWrite]
    /\ torn' = torn \cup (IF preq.pc \in {"syncing", "removing"} THEN {preq.id} ELSE {})
    /\ files' = [files EXCEPT !.portfolio =
                    LET ids == DOMAIN projects
                        order == CHOOSE s \in [1..Cardinality(ids) -> ids] :
                                     \A i, j \in DOMAIN s : i # j => s[i] # s[j]
                    IN  SortBySequence([i \in DOMAIN order |->
                            [id |-> OidId(order[i]), title |-> projects[order[i]].title,
                             sequence |-> projects[order[i]].sequence]])]
    /\ UNCHANGED <<projects, projectSeq, notProjects>>

\* The process dies with requests in progress and is started again: the
\* requests are gone, the collection and the files are as they were left.
Crash ==
    /\ preq.pc # "idle" \/ \E w \in Writers : awrite[w].pc # "idle"
    /\ preq' = IdleProjectRequest
    /\ awrite' = [w \in Writers |-> IdleWrite]
    /\ torn' = torn \cup (IF preq.pc \in {"syncing", "removing"} THEN {preq.id} ELSE {})
    /\ UNCHANGED <<projects, projectSeq, files, notProjects>>

ProjectBodies ==
    [title : Titles \cup {Absent}, published : {"true", "false", Absent},
     sequence : {"1", Absent}]

ProjectsInit ==
    /\ ContactIdle
    /\ notifications = <<>>
    /\ users = UsersWithAdmins
    /\ SiteIdle

\* The project write routes, one request at a time, and the loss of the
\* process.
ProjectsNext ==
    \/ \E cred \in Credentials, body \in ProjectBodies : ProjectBegin(cred, "create", 0, body)
    \/ \E cred \in Credentials, id \in ProjectIds, body \in ProjectBodies :
          ProjectBegin(cred, "update", id, body)
    \/ \E cred \in Credentials, id \in ProjectIds :
          ProjectBegin(cred, "delete", id, IdleProjectRequest.body)
    \/ \E cred \in Credentials, id \in ProjectIds, sequence \in {"0", "1"} :
          ProjectBegin(cred, "sequence", id,
                       [IdleProjectRequest.body EXCEPT !.sequence = sequence])
    \/ \E ok \in BOOLEAN : ProjectCreated(ok)
    \/ ProjectUpdateFound
    \/ \E ok \in BOOLEAN : ProjectSaved(ok)
    \/ \E ok \in BOOLEAN : ProjectSynced(ok)
    \/ \E ok \in BOOLEAN, hasRemove \in BOOLEAN : ProjectDeleteFound(ok, hasRemove)
    \/ ProjectRemoved
    \/ \E ok \in BOOLEAN : ProjectSequenced(ok)
    \/ ProjectFinish
    \/ Crash

ProjectsSpec == ProjectsInit /\ [][ProjectsNext]_vars

\* The same beside one admin POST to the portfolio list.
PortfolioNext ==
    \/ \E cred \in Credentials, body \in ProjectBodies : ProjectBegin(cred, "create", 0, body)
    \/ \E cred \in Credentials, id \in ProjectIds, body \in ProjectBodies :
          ProjectBegin(cred, "update", id, body)
    \/ \E cred \in Credentials, id \in ProjectIds :
          ProjectBegin(cred, "delete", id, IdleProjectRequest.body)
    \/ \E cred \in Credentials, id \in ProjectIds, sequence \in {"0", "1"} :
          ProjectBegin(cred, "sequence", id,
                       [IdleProjectRequest.body EXCEPT !.sequence = sequence])
    \/ \E ok \in BOOLEAN : ProjectCreated(ok)
    \/ ProjectUpdateFound
    \/ \E ok \in BOOLEAN : ProjectSaved(ok)
    \/ \E ok \in BOOLEAN : ProjectSynced(ok)
    \/ \E ok \in BOOLEAN, hasRemove \in BOOLEAN : ProjectDeleteFound(ok, hasRemove)
    \/ ProjectRemoved
    \/ \E ok \in BOOLEAN : ProjectSequenced(ok)
    \/ ProjectFinish
    \/ \E cred \in Credentials : AdminPostBegin("w1", cred, "portfolio", "Loft")
    \/ \E ok \in BOOLEAN : AdminPostRead("w1", ok)
    \/ \E ok \in BOOLEAN : AdminPostWritten("w1", ok)
    \/ AdminPostFinish("w1")
    \/ Crash

PortfolioSpec == ProjectsInit /\ [][PortfolioNext]_vars

(***************************************************************************)
(* Notifications: models/Notification.js and routes/notifications.js      *)
(***************************************************************************)

MaxNotifications == 2

MaxTime == 2

\* new Date(t) and its time value
Date(t) == <<"date", t>>

getTime(date) == date[2]

\* expiresAt: expiresAt ? new Date(expiresAt) : null
Expiries == {Null, Date(1), Date(MaxTime + 1)}

NotificationIds == 1..MaxNotifications

\* $or: [{ expiresAt: null }, { expiresAt: { $gt: new Date() } }], with only
\* the first branch
Unexpired_nullOnly(doc) == doc.expiresAt = Null

\* $or: [{ expiresAt: null }, { expiresAt: { $gt: new Date() } }]
Unexpired(doc) == doc.expiresAt = Null \/ getTime(doc.expiresAt) > now

\* find({ recipient: userId, [read: false,] $or: ... }) on a collection: the
\* _ids of the documents matched
Find(collection, userId, unreadOnly) ==
    {collection[i]._id : i \in
        {j \in DOMAIN collection :
            /\ collection[j].recipient = userId
            /\ unreadOnly => ~collection[j].read
            /\ Unexpired(collection[j])}}

Doc(id) == notifications[CHOOSE i \in DOMAIN notifications : notifications[i]._id = id]

\* .sort({ createdAt: -1 }).skip(skip).limit(limit) on the documents matched:
\* every result the query can give, documents of one createdAt in any order
Page(matched, skip, limit) ==
    LET createdAt == [id \in matched |-> Doc(id).createdAt]
        orders == {s \in [1..Cardinality(matched) -> matched] :
                      \A i, j \in DOMAIN s :
                          i < j => s[i] # s[j] /\ createdAt[s[i]] >= createdAt[s[j]]}
    IN  IF skip >= Cardinality(matched) THEN {{}}
        ELSE {{s[i] : i \in {k \in DOMAIN s : skip < k /\ k <= skip + limit}} : s \in orders}

\* Notification.getUnread(userId, limit)
getUnread(userId, limit) == Page(Find(notifications, userId, TRUE), 0, limit)

\* Notification.getForUser(userId, page, limit)
getForUser(userId, page, limit) ==
    Page(Find(notifications, userId, FALSE), (page - 1) * limit, limit)

\* Notification.getUnreadCount(userId)
getUnreadCount(userId) == Cardinality(Find(notifications, userId, TRUE))

\* Notification.markAsRead(userId, notificationIds): the collection after
\* the updateMany
markAsRead(userId, notificationIds) ==
    [i \in DOMAIN notifications |->
        IF notifications[i]._id \in notificationIds /\ notifications[i].recipient = userId
        THEN [notifications[i] EXCEPT !.read = TRUE, !.readAt = Date(now)]
        ELSE notifications[i]]

\* A slip: the updateMany of markAllAsRead sets the flag alone.
markAllAsRead_flagOnly(userId) ==
    [i \in DOMAIN notifications |->
        IF notifications[i].recipient = userId /\ ~notifications[i].read
        THEN [notifications[i] EXCEPT !.read = TRUE]
        ELSE notifications[i]]

\* Notification.markAllAsRead(userId): the collection after the updateMany
markAllAsRead(userId) ==
    [i \in DOMAIN notifications |->
        IF notifications[i].recipient = userId /\ ~notifications[i].read
        THEN [notifications[i] EXCEPT !.read = TRUE, !.readAt = Date(now)]
        ELSE notifications[i]]

notNotifications ==
    <<contactVars, users, dels, projects, projectSeq, files, preq, awrite, uploads, posts,
      breq, torn, seo, areq, ans>>

\* POST /api/notifications/system: no recipients given means every active
\* admin and superadmin; one document per recipient, createdAt the time of
\* the insert, expiresAt the date given or null.
SystemNotify(cred, recipients, expiresAt) ==
    LET gate == checkPermission(cred, "manage_users")
        recipientIds == IF recipients = {} THEN ActiveAdmins ELSE recipients
        inserted == createSystemNotification(recipientIds,
                        [type |-> "info", category |-> "system", priority |-> "normal",
                         read |-> FALSE, readAt |-> Null, expiresAt |-> expiresAt,
                         createdAt |-> now,
                         _id |-> 0])
    IN  /\ gate = 0
        /\ notificationSeq + Cardinality(recipientIds) <= MaxNotifications
        /\ notifications' =
              [i \in DOMAIN inserted |->
                  IF i <= Len(notifications) THEN notifications[i]
                  ELSE [inserted[i] EXCEPT !._id = notificationSeq + i - Len(notifications)]]
        /\ notificationSeq' = notificationSeq + Cardinality(recipientIds)
        /\ UNCHANGED <<now, nreq, notNotifications>>

\* PUT /api/notifications/read: protect, and the handler up to its first
\* await.
ReadBegin(user, notificationIds) ==
    /\ nreq.pc = "idle"
    /\ nreq' = IF user = "none"
               THEN [IdleRead EXCEPT !.pc = "done", !.resp = 401]
               ELSE [IdleRead EXCEPT !.pc = "marking", !.user = user,
                                     !.notificationIds = notificationIds]
    /\ UNCHANGED <<notifications, notificationSeq, now, notNotifications>>

\* A slip: `if (notificationIds)`, so that an empty array marks by id.
ReadMarked_truthyIds(ok) ==
    /\ nreq.pc = "marking"
    /\ LET after == IF nreq.notificationIds.given
                    THEN markAsRead(nreq.user, nreq.notificationIds.ids)
                    ELSE markAllAsRead(nreq.user)
       IN  IF ok
           THEN /\ notifications' = after
                /\ nreq' = [nreq EXCEPT !.pc = "counting",
                               !.modified = Cardinality({i \in DOMAIN after :
                                                after[i] # notifications[i]})]
           ELSE /\ nreq' = [nreq EXCEPT !.pc = "done", !.resp = errorHandler("database")]
                /\ UNCHANGED notifications
    /\ UNCHANGED <<notificationSeq, now, notNotifications>>

\* The updateMany resolves or rejects: markAsRead when ids were given and
\* there is at least one, markAllAsRead otherwise.
ReadMarked(ok) ==
    /\ nreq.pc = "marking"
    /\ LET after == IF nreq.notificationIds.given /\ Cardinality(nreq.notificationIds.ids) > 0
                    THEN markAsRead(nreq.user, nreq.notificationIds.ids)
                    ELSE markAllAsRead(nreq.user)
       IN  IF ok
           THEN /\ notifications' = after
                /\ nreq' = [nreq EXCEPT !.pc = "counting",
                               !.modified = Cardinality({i \in DOMAIN after :
                                                after[i] # notifications[i]})]
           ELSE /\ nreq' = [nreq EXCEPT !.pc = "done", !.resp = errorHandler("database")]
                /\ UNCHANGED notifications
    /\ UNCHANGED <<notificationSeq, now, notNotifications>>

\* getUnreadCount resolves or rejects; the answer carries the count.
ReadCounted(ok) ==
    /\ nreq.pc = "counting"
    /\ nreq' = IF ok
               THEN [nreq EXCEPT !.pc = "done", !.resp = 200,
                                 !.unreadCount = getUnreadCount(nreq.user)]
               ELSE [nreq EXCEPT !.pc = "done", !.resp = errorHandler("database")]
    /\ UNCHANGED <<notifications, notificationSeq, now, notNotifications>>

ReadFinish ==
    /\ nreq.pc = "done"
    /\ nreq' = IdleRead
    /\ UNCHANGED <<notifications, notificationSeq, now, notNotifications>>

\* The TTL monitor of the index { expiresAt: 1 }, expireAfterSeconds 0, on
\* one of its passes: the documents whose date has come are removed.
\* (DELETE /api/notifications/expired is registered after DELETE /:id, which
\* takes the request, and removes nothing.)
TtlPurge ==
    /\ \E i \in DOMAIN notifications :
          notifications[i].expiresAt # Null /\ getTime(notifications[i].expiresAt) <= now
    /\ notifications' = SelectSeq(notifications,
                            LAMBDA doc : ~(doc.expiresAt # Null /\ getTime(doc.expiresAt) <= now))
    /\ UNCHANGED <<notificationSeq, now, nreq, notNotifications>>

\* Time passes.
Tick ==
    /\ now < MaxTime
    /\ now' = now + 1
    /\ UNCHANGED <<notifications, notificationSeq, nreq, notNotifications>>

NotificationsInit ==
    /\ ContactIdle
    /\ notifications = <<>>
    /\ users = UsersWithAdmins
    /\ SiteIdle

\* The bodies of PUT /read: no notificationIds, an empty array, one id
IdChoices == {NoIds} \cup {[given |-> TRUE, ids |-> ids] : ids \in {{}, {1}}}

\* The callers of PUT /read: no token, and an admin who is sent the system
\* notifications
Readers == {"none", "u1"}

NotificationsNext ==
    \/ \E cred \in Credentials, recipients \in {{}, {"u1"}}, expiresAt \in Expiries :
          SystemNotify(cred, recipients, expiresAt)
    \/ \E user \in Readers, notificationIds \in IdChoices :
          ReadBegin(user, notificationIds)
    \/ \E ok \in BOOLEAN : ReadMarked(ok)
    \/ \E ok \in BOOLEAN : ReadCounted(ok)
    \/ ReadFinish
    \/ TtlPurge
    \/ Tick

NotificationsSpec == NotificationsInit /\ [][NotificationsNext]_vars

\* notificationSchema.pre('save'): readAt set when read is set without it
notificationPreSave(doc) ==
    IF doc.read /\ doc.readAt = Null THEN [doc EXCEPT !.readAt = Date(now)] ELSE doc

\* notification.markAsRead(): the document as save() writes it
methodsMarkAsRead(doc) == notificationPreSave([doc EXCEPT !.read = TRUE, !.readAt = Date(now)])

\* A slip: the document looked up by its _id alone.
findOneNotification_anyRecipient(id, userId) ==
    {i \in DOMAIN notifications : notifications[i]._id = id}

\* Notification.findOne({ _id: req.params.id, recipient: req.user.id }): the
\* places of the documents matched
findOneNotification(id, userId) ==
    {i \in DOMAIN notifications :
        notifications[i]._id = id /\ notifications[i].recipient = userId}

InboxAnswer(handler, code) ==
    [route |-> "/api/notifications/:id", param |-> "none", resp |-> code, handler |-> handler,
     body |-> {}]

\* PUT /api/notifications/:id/read
MarkOneRead(user, id, ok) ==
    /\ nreq.pc = "idle"
    /\ LET found == findOneNotification(id, user)
       IN  IF user = "none"
           THEN /\ ans' = InboxAnswer("read", 401)
                /\ UNCHANGED notifications
           ELSE IF found = {}
           THEN /\ ans' = InboxAnswer("read", 404)
                /\ UNCHANGED notifications
           ELSE IF ~ok
           THEN /\ ans' = InboxAnswer("read", errorHandler("database"))
                /\ UNCHANGED notifications
           ELSE /\ notifications' =
                      [i \in DOMAIN notifications |->
                          IF i \in found THEN methodsMarkAsRead(notifications[i])
                          ELSE notifications[i]]
                /\ ans' = InboxAnswer("read", 200)
    /\ UNCHANGED <<notificationSeq, now, nreq, contactVars, users, dels, projects, projectSeq,
                   files, preq, awrite, uploads, posts, breq, torn, seo, areq>>

\* DELETE /api/notifications/:id: notification.remove() where the installed
\* mongoose still has Document.prototype.remove, a TypeError where it has not
NotificationDelete(user, id, hasRemove, ok) ==
    /\ nreq.pc = "idle"
    /\ LET found == findOneNotification(id, user)
       IN  IF user = "none"
           THEN /\ ans' = InboxAnswer("delete", 401)
                /\ UNCHANGED notifications
           ELSE IF found = {}
           THEN /\ ans' = InboxAnswer("delete", 404)
                /\ UNCHANGED notifications
           ELSE IF ~hasRemove \/ ~ok
           THEN /\ ans' = InboxAnswer("delete", 500)
                /\ UNCHANGED notifications
           ELSE /\ notifications' =
                      SelectSeq(notifications,
                                LAMBDA doc : ~(doc._id = id /\ doc.recipient = user))
                /\ ans' = InboxAnswer("delete", 200)
    /\ UNCHANGED <<notificationSeq, now, nreq, contactVars, users, dels, projects, projectSeq,
                   files, preq, awrite, uploads, posts, breq, torn, seo, areq>>

\* The users of the inbox routes: no token, and the two admins
InboxUsers == {"none", "u1", "u2"}

\* Every route that writes notifications, for both recipients, on
\* notifications that do not expire.
InboxNext ==
    \/ \E cred \in Credentials, recipients \in {{}, {"u1"}} :
          SystemNotify(cred, recipients, Null)
    \/ \E user \in InboxUsers, notificationIds \in IdChoices :
          ReadBegin(user, notificationIds)
    \/ \E ok \in BOOLEAN : ReadMarked(ok)
    \/ \E ok \in BOOLEAN : ReadCounted(ok)
    \/ ReadFinish
    \/ \E user \in InboxUsers, id \in NotificationIds, ok \in BOOLEAN :
          MarkOneRead(user, id, ok)
    \/ \E user \in InboxUsers, id \in NotificationIds, hasRemove \in BOOLEAN, ok \in BOOLEAN :
          NotificationDelete(user, id, hasRemove, ok)
    \/ Tick

InboxSpec == NotificationsInit /\ [][InboxNext]_vars

(***************************************************************************)
(* Blog: the BlogPost model and routes/blog.js                             *)
(***************************************************************************)

MaxViews == 2

Str_Loft == <<"L", "o", "f", "t">>

Str_Big_and_red == <<"B", "i", "g", " ", "&", " ", "r", "e", "d", "!">>

Str_dash_New_2 == <<"-", "N", "e", "w", " ", " ", "2">>

Str_loft == <<"l", "o", "f", "t">>

Str_big_red == <<"b", "i", "g", "-", "r", "e", "d">>

\* [a-z0-9]
IsLowerAlnum(c) == c \in Range(LowerChars) \cup Range(DigitChars)

RECURSIVE SkipRun(_)
\* What is left of s after the run of characters outside [a-z0-9] it starts with.
SkipRun(s) == IF s # <<>> /\ ~IsLowerAlnum(Head(s)) THEN SkipRun(Tail(s)) ELSE s

RECURSIVE ReplaceRuns(_)
\* .replace(/[^a-z0-9]+/g, '-')
ReplaceRuns(s) ==
    IF s = <<>> THEN <<>>
    ELSE IF IsLowerAlnum(Head(s)) THEN <<Head(s)>> \o ReplaceRuns(Tail(s))
    ELSE <<"-">> \o ReplaceRuns(SkipRun(s))

\* .replace(/(^-|-$)/g, '')
StripHyphens(s) ==
    LET t == IF s # <<>> /\ Head(s) = "-" THEN Tail(s) ELSE s
    IN  IF t # <<>> /\ t[Len(t)] = "-" THEN SubSeq(t, 1, Len(t) - 1) ELSE t

\* The slug the pre('save') hook derives from a title.
generateSlug(title) == StripHyphens(ReplaceRuns(ToLowerCase(title)))

CategoryEnum == {"design-tips", "trends", "case-studies", "news", "inspiration"}

\* A JavaScript value that is neither undefined nor the empty string.
Truthy(v) == v # Undefined /\ v # <<>>

\* The setters of the schema: title trimmed, slug lowercased and trimmed.
blogPostCast(doc) ==
    [doc EXCEPT !.title = IF Truthy(@) THEN Trim(@) ELSE @,
                !.slug = IF Truthy(@) THEN Trim(ToLowerCase(@)) ELSE @]

\* The validators: title, slug and category required, category in the enum.
blogPostSchemaValid(doc) ==
    /\ Truthy(doc.title)
    /\ Truthy(doc.slug)
    /\ doc.category \in CategoryEnum

\* blogPostSchema.pre('save'): the slug from the title if there is none.
blogPostPreSave(doc) ==
    IF ~Truthy(doc.slug) /\ Truthy(doc.title)
    THEN [doc EXCEPT !.slug = generateSlug(doc.title)]
    ELSE doc

\* save() of a document: the setters have run on assignment, the built-in
\* validation hook runs first and ends the save on a ValidationError, then
\* the schema's own pre('save') hooks run and the document is written.
blogPostSave(doc) ==
    LET cast == blogPostCast(doc)
    IN  IF blogPostSchemaValid(cast) THEN [error |-> "none", doc |-> blogPostPreSave(cast)]
        ELSE [error |-> "validation", doc |-> doc]

\* The posts a deployment starts with, written to the collection with their
\* slugs by other means than the routes.
SeedPosts(published1, published2) ==
    (1 :> [title |-> Str_Loft, slug |-> Str_loft, category |-> "trends",
           published |-> published1, views |-> 0])
    @@ (2 :> [title |-> Str_Big_and_red, slug |-> Str_big_red, category |-> "news",
              published |-> published2, views |-> 0])

BlogTitles == {Undefined, <<" ">>, Str_Loft, Str_Big_and_red, Str_dash_New_2}

BlogCategories == {"trends", Absent}

PostIds == {1, 2, 3}

notBlog ==
    <<contactVars, notifications, users, now, dels, projects, projectSeq, files, preq, awrite,
      uploads, notificationSeq, nreq, torn, seo, areq, ans>>

\* POST /api/blog: the post data carries no slug; BlogPost.create saves it.
BlogCreate(cred, title, category, ok) ==
    LET gate == checkPermission(cred, "manage_blog")
        postData == [title |-> title, slug |-> Undefined, category |-> category,
                     published |-> FALSE, views |-> 0]
        saved == blogPostSave(postData)
        id == Cardinality(DOMAIN posts) + 1
        taken == \E p \in DOMAIN posts : posts[p].slug = saved.doc.slug
        answer == [NoAnswer EXCEPT !.op = "create", !.title = title, !.category = category]
    IN  /\ IF gate # 0 THEN /\ breq' = [answer EXCEPT !.resp = gate]
                            /\ UNCHANGED posts
           ELSE IF saved.error # "none"
           THEN /\ breq' = [answer EXCEPT !.resp = errorHandler(saved.error)]
                /\ UNCHANGED posts
           ELSE IF taken \/ ~ok \/ id \notin PostIds
           THEN /\ breq' = [answer EXCEPT !.resp = errorHandler("database")]
                /\ UNCHANGED posts
           ELSE /\ posts' = (id :> saved.doc) @@ posts
                /\ breq' = [answer EXCEPT !.resp = 201, !.id = id]
        /\ UNCHANGED notBlog

\* PUT /api/blog/:id: a title given replaces the title; post.save().
BlogUpdate(cred, id, title, ok) ==
    LET gate == checkPermission(cred, "manage_blog")
        answer == [NoAnswer EXCEPT !.op = "update", !.title = title, !.id = id]
    IN  /\ IF gate # 0 THEN /\ breq' = [answer EXCEPT !.resp = gate]
                            /\ UNCHANGED posts
           ELSE IF id \notin DOMAIN posts
           THEN /\ breq' = [answer EXCEPT !.resp = 404]
                /\ UNCHANGED posts
           ELSE LET saved == blogPostSave(IF Truthy(title)
                                          THEN [posts[id] EXCEPT !.title = title]
                                          ELSE posts[id])
                IN  IF saved.error # "none" \/ ~ok
                    THEN /\ breq' = [answer EXCEPT !.resp =
                                        errorHandler(IF saved.error # "none" THEN saved.error
                                                     ELSE "database")]
                         /\ UNCHANGED posts
                    ELSE /\ posts' = [posts EXCEPT ![id] = saved.doc]
                         /\ breq' = [answer EXCEPT !.resp = 200]
        /\ UNCHANGED notBlog

\* GET /api/blog/:slug: the published post of that slug, its views
\* incremented and saved.
BlogView(slug) ==
    LET found == {p \in DOMAIN posts : posts[p].slug = slug /\ posts[p].published}
        answer == [NoAnswer EXCEPT !.op = "view"]
    IN  /\ IF found = {} THEN /\ breq' = [answer EXCEPT !.resp = 404]
                              /\ UNCHANGED posts
           ELSE LET id == CHOOSE p \in found : TRUE
                    saved == blogPostSave([posts[id] EXCEPT !.views = @ + 1])
                IN  /\ posts[id].views < MaxViews
                    /\ posts' = [posts EXCEPT ![id] = saved.doc]
                    /\ breq' = [answer EXCEPT !.resp = 200, !.id = id]
        /\ UNCHANGED notBlog

BlogInit ==
    /\ ContactIdle
    /\ notifications = <<>>
    /\ users = UsersWithAdmins
    /\ now = 0
    /\ dels = [r \in DeleteRequests |-> IdleDelete]
    /\ projects = <<>>
    /\ projectSeq = 0
    /\ files = EmptyFiles
    /\ preq = IdleProjectRequest
    /\ awrite = [w \in Writers |-> IdleWrite]
    /\ uploads = {}
    /\ notificationSeq = 0
    /\ nreq = IdleRead
    /\ \E published1, published2 \in BOOLEAN : posts = SeedPosts(published1, published2)
    /\ breq = NoAnswer
    /\ torn = {}
    /\ seo = <<>>
    /\ areq = [r \in AuthRequests |-> IdleAuth]
    /\ ans = NoReply

BlogNext ==
    \/ \E cred \in Credentials, title \in BlogTitles, category \in BlogCategories,
          ok \in BOOLEAN : BlogCreate(cred, title, category, ok)
    \/ \E cred \in Credentials, id \in PostIds, title \in BlogTitles, ok \in BOOLEAN :
          BlogUpdate(cred, id, title, ok)
    \/ \E slug \in {Str_loft, Str_big_red} : BlogView(slug)

BlogSpec == BlogInit /\ [][BlogNext]_vars

(***************************************************************************)
(* SEO: the SEO model and routes/seo.js                                    *)
(***************************************************************************)

\* enum of seoSchema.page
PageEnum == {"home", "about", "services", "portfolio", "contact", "blog", "global"}

\* The GET routes of the router in the order they are registered: a pattern
\* is a fixed segment, the empty path, or one parameter.
SeoGetRoutes ==
    <<[pattern |-> ":page", handler |-> "getByPage"],
      [pattern |-> "", handler |-> "getAll"],
      [pattern |-> "sitemap.xml", handler |-> "sitemap"],
      [pattern |-> "robots.txt", handler |-> "robots"]>>

\* A path of one segment (or none) against a pattern: a parameter takes any
\* segment that is not empty.
RouteMatches(pattern, path) ==
    IF pattern = ":page" THEN path # "" ELSE pattern = path

\* The handler the router gives the request to: the first route that matches.
Dispatch(routes, path) ==
    LET hits == {i \in DOMAIN routes : RouteMatches(routes[i].pattern, path)}
    IN  IF hits = {} THEN "none"
        ELSE routes[CHOOSE i \in hits : \A j \in hits : i <= j].handler

\* seo.toSitemapEntry(baseUrl): what follows `${baseUrl}/` in the url
toSitemapEntry(page) ==
    [loc |-> IF page = "home" THEN "" ELSE page, changefreq |-> seo[page].sitemapChangeFreq]

\* The url entries the sitemap handler writes.
Sitemap == {toSitemapEntry(page) : page \in DOMAIN seo}

SeoPaths == {"", "home", "about", "careers", "sitemap.xml", "robots.txt"}

SeoBodies == {"home", "about", "sitemap.xml"}

notSeo ==
    <<contactVars, notifications, users, now, dels, projects, projectSeq, files, preq, awrite,
      uploads, notificationSeq, nreq, posts, breq, torn, areq>>

\* GET /api/seo/<path>, by the handler the router picks.
SeoGet(cred, path) ==
    LET handler == Dispatch(SeoGetRoutes, path)
        reply == [NoReply EXCEPT !.route = "GET /api/seo", !.param = path, !.handler = handler]
    IN  /\ ans' =
              CASE handler = "getByPage" ->
                       IF path \in DOMAIN seo
                       THEN [reply EXCEPT !.resp = 200, !.body = {seo[path]}]
                       ELSE [reply EXCEPT !.resp = 404]
                [] handler = "getAll" ->
                       IF checkPermission(cred, "manage_seo") # 0
                       THEN [reply EXCEPT !.resp = checkPermission(cred, "manage_seo")]
                       ELSE [reply EXCEPT !.resp = 200, !.body = {seo[page] : page \in DOMAIN seo}]
                [] handler = "sitemap" -> [reply EXCEPT !.resp = 200, !.body = Sitemap]
                [] handler = "robots" -> [reply EXCEPT !.resp = 200, !.body = {"robots"}]
                [] OTHER -> [reply EXCEPT !.resp = 404]
        /\ UNCHANGED <<seo, notSeo>>

\* POST /api/seo: the document of the page updated, or created when the
\* page is one of the enum.
SeoUpsert(cred, page, sitemapChangeFreq, ok) ==
    LET gate == checkPermission(cred, "manage_seo")
        reply == [NoReply EXCEPT !.route = "POST /api/seo", !.param = page, !.handler = "upsert"]
    IN  /\ IF gate # 0 THEN /\ ans' = [reply EXCEPT !.resp = gate]
                            /\ UNCHANGED seo
           ELSE IF page \notin PageEnum
           THEN /\ ans' = [reply EXCEPT !.resp = errorHandler("validation")]
                /\ UNCHANGED seo
           ELSE IF ~ok
           THEN /\ ans' = [reply EXCEPT !.resp = errorHandler("database")]
                /\ UNCHANGED seo
           ELSE /\ seo' = (page :> [page |-> page, sitemapChangeFreq |-> sitemapChangeFreq]) @@ seo
                /\ ans' = [reply EXCEPT !.resp = 200]
        /\ UNCHANGED notSeo

SeoInit ==
    /\ ContactIdle
    /\ notifications = <<>>
    /\ users = UsersWithAdmins
    /\ SiteIdle

SeoNext ==
    \/ \E cred \in Credentials, path \in SeoPaths : SeoGet(cred, path)
    \/ \E cred \in Credentials, page \in SeoBodies, sitemapChangeFreq \in {"daily", "weekly"},
          ok \in BOOLEAN : SeoUpsert(cred, page, sitemapChangeFreq, ok)

SeoSpec == SeoInit /\ [][SeoNext]_vars

(***************************************************************************)
(* Auth: routes/auth.js                                                    *)
(***************************************************************************)

\* The accounts of the User collection before any request: two ordinary
\* users, one of them deactivated, with or without an admin beside them.
Accounts(withAdmin) ==
    [u \in {"u1", "u2"} \cup (IF withAdmin THEN {"u3"} ELSE {}) |->
        [role |-> IF u = "u3" THEN "admin" ELSE "user",
         isActive |-> u # "u2",
         password |-> "secret",
         lastLogin |-> Null]]

Passwords == {"secret", "guess"}

Emails == {"u1", "u2", "nobody"}

SetupNames == {"root", "boss"}

\* user.comparePassword(password)
comparePassword(user, password) == user.password = password

\* generateToken(id): the token carries the id
generateToken(id) == id

notAuth ==
    <<contactVars, notifications, dels, projects, projectSeq, files, preq, awrite, uploads,
      notificationSeq, nreq, posts, breq, torn, seo, ans>>

AnswerAuth(a, code) == [a EXCEPT !.pc = "done", !.resp = code]

\* POST /api/auth/login, up to the await of User.findOne({ email }).
LoginBegin(r, email, password) ==
    /\ areq[r].pc = "idle"
    /\ areq' = [areq EXCEPT ![r] = [IdleAuth EXCEPT !.pc = "finding", !.route = "login",
                                        !.username = email, !.password = password]]
    /\ UNCHANGED <<users, now, notAuth>>

\* LoginFound without the isActive check.
LoginFound_noActiveCheck(r) ==
    /\ areq[r].pc = "finding"
    /\ areq[r].route = "login"
    /\ areq' = [areq EXCEPT ![r] =
                   IF areq[r].username \notin DOMAIN users THEN AnswerAuth(@, 401)
                   ELSE [@ EXCEPT !.pc = "comparing", !.user = users[areq[r].username]]]
    /\ UNCHANGED <<users, now, notAuth>>

\* findOne resolves: 401 for no user and for a user that is not active,
\* else comparePassword is awaited on the document read.
LoginFound(r) ==
    /\ areq[r].pc = "finding"
    /\ areq[r].route = "login"
    /\ areq' = [areq EXCEPT ![r] =
                   IF areq[r].username \notin DOMAIN users THEN AnswerAuth(@, 401)
                   ELSE IF ~users[areq[r].username].isActive THEN AnswerAuth(@, 401)
                   ELSE [@ EXCEPT !.pc = "comparing", !.user = users[areq[r].username]]]
    /\ UNCHANGED <<users, now, notAuth>>

\* comparePassword resolves: 401 for a mismatch, else lastLogin is set on
\* the document and user.save() is awaited.
LoginCompared(r) ==
    /\ areq[r].pc = "comparing"
    /\ areq' = [areq EXCEPT ![r] =
                   IF ~comparePassword(@.user, @.password) THEN AnswerAuth(@, 401)
                   ELSE [@ EXCEPT !.pc = "saving", !.user.lastLogin = Date(now)]]
    /\ UNCHANGED <<users, now, notAuth>>

\* user.save() resolves, the modified path lastLogin written, and the
\* answer carries the token; or it rejects.
LoginSaved(r, ok) ==
    /\ areq[r].pc = "saving"
    /\ IF ok /\ areq[r].username \in DOMAIN users
       THEN /\ users' = [users EXCEPT ![areq[r].username].lastLogin = areq[r].user.lastLogin]
            /\ areq' = [areq EXCEPT ![r] = [AnswerAuth(@, 200) EXCEPT
                                               !.token = generateToken(areq[r].username)]]
       ELSE /\ areq' = [areq EXCEPT ![r] = AnswerAuth(@, errorHandler("database"))]
            /\ UNCHANGED users
    /\ UNCHANGED <<now, notAuth>>

\* POST /api/auth/setup-admin, up to the await of User.findOne({ role: 'admin' }).
SetupBegin(r, username) ==
    /\ areq[r].pc = "idle"
    /\ areq' = [areq EXCEPT ![r] = [IdleAuth EXCEPT !.pc = "finding", !.route = "setup-admin",
                                        !.username = username]]
    /\ UNCHANGED <<users, now, notAuth>>

\* findOne resolves: 400 when an admin exists, else User.create is awaited.
SetupFound(r) ==
    /\ areq[r].pc = "finding"
    /\ areq[r].route = "setup-admin"
    /\ areq' = [areq EXCEPT ![r] =
                   IF \E u \in DOMAIN users : users[u].role = "admin" THEN AnswerAuth(@, 400)
                   ELSE [@ EXCEPT !.pc = "creating"]]
    /\ UNCHANGED <<users, now, notAuth>>

\* User.create resolves with the admin inserted, or rejects (the username
\* taken, or the database refusing the write).
SetupCreated(r, ok) ==
    /\ areq[r].pc = "creating"
    /\ IF ok /\ areq[r].username \notin DOMAIN users
       THEN /\ users' = (areq[r].username :>
                            [role |-> "admin", isActive |-> TRUE, password |-> "secret",
                             lastLogin |-> Null]) @@ users
            /\ areq' = [areq EXCEPT ![r] = [AnswerAuth(@, 201) EXCEPT
                                               !.token = generateToken(areq[r].username)]]
       ELSE /\ areq' = [areq EXCEPT ![r] = AnswerAuth(@, errorHandler("database"))]
            /\ UNCHANGED users
    /\ UNCHANGED <<now, notAuth>>

AuthFinish(r) ==
    /\ areq[r].pc = "done"
    /\ areq' = [areq EXCEPT ![r] = IdleAuth]
    /\ UNCHANGED <<users, now, notAuth>>

\* PUT /api/auth/users/:id by an admin: isActive set and saved.
UpdateUser(cred, id, isActive) ==
    /\ checkPermission(cred, "admin") = 0
    /\ id \in DOMAIN users
    /\ users[id].isActive # isActive
    /\ users' = [users EXCEPT ![id].isActive = isActive]
    /\ UNCHANGED <<areq, now, notAuth>>

AuthInit ==
    /\ ContactIdle
    /\ notifications = <<>>
    /\ \E withAdmin \in BOOLEAN : users = Accounts(withAdmin)
    /\ SiteIdle

\* Logins in progress together, beside an admin switching accounts on and off.
LoginNext ==
    \/ \E r \in AuthRequests, email \in Emails, password \in Passwords :
          LoginBegin(r, email, password)
    \/ \E r \in AuthRequests : LoginFound(r)
    \/ \E r \in AuthRequests : LoginCompared(r)
    \/ \E r \in AuthRequests, ok \in BOOLEAN : LoginSaved(r, ok)
    \/ \E r \in AuthRequests : AuthFinish(r)
    \/ \E cred \in Credentials, id \in {"u1", "u2"}, isActive \in BOOLEAN :
          UpdateUser(cred, id, isActive)
    \/ Tick

LoginSpec == AuthInit /\ [][LoginNext]_vars

\* Setup requests in progress together, beside logins of one client.
AuthNext ==
    \/ \E r \in AuthRequests, username \in SetupNames : SetupBegin(r, username)
    \/ \E r \in AuthRequests : SetupFound(r)
    \/ \E r \in AuthRequests, ok \in BOOLEAN : SetupCreated(r, ok)
    \/ \E r \in AuthRequests : AuthFinish(r)
    \/ \E email \in Emails, password \in Passwords : LoginBegin("a1", email, password)
    \/ LoginFound("a1")
    \/ LoginCompared("a1")
    \/ \E ok \in BOOLEAN : LoginSaved("a1", ok)

AuthSpec == AuthInit /\ [][AuthNext]_vars

(***************************************************************************)
(* Services: routes/admin.js, the JSON list of services                    *)
(***************************************************************************)

ServiceTitles == {"Design", "Build"}

\* The texts a client may put in the place of :id: those of the ids a
\* creation can have returned.
ServiceParams == {NumId(n) : n \in 1..(MaxItems + 1)} \cup {NullId}

\* i.id === req.params.id: the parameter is a string, so only a stored
\* string with the same text is equal to it, never a number or null
StrictEqualsParam(id, param) == id.kind = "oid" /\ id = param

\* items.findIndex(i => i.id === req.params.id), counted from 1; 0 for -1
findIndexService(items, param) ==
    IF \E i \in DOMAIN items : StrictEqualsParam(items[i].id, param)
    THEN CHOOSE i \in DOMAIN items :
            /\ StrictEqualsParam(items[i].id, param)
            /\ \A k \in 1..(i - 1) : ~StrictEqualsParam(items[k].id, param)
    ELSE 0

notServices ==
    <<contactVars, notifications, users, now, dels, projects, projectSeq, preq, awrite, uploads,
      notificationSeq, nreq, posts, breq, torn, seo, areq>>

ServiceAnswer(handler, param, code, body) ==
    [route |-> "/api/admin/services", param |-> param, resp |-> code, handler |-> handler,
     body |-> body]

\* GET /api/admin/services/:id
ServiceGet(cred, param) ==
    /\ LET code == checkPermission(cred, "admin")
           index == findIndexService(files.services, param)
       IN  ans' = IF code # 0 THEN ServiceAnswer("get", param, code, {})
                  ELSE IF index = 0 THEN ServiceAnswer("get", param, 404, {})
                  ELSE ServiceAnswer("get", param, 200, {files.services[index]})
    /\ UNCHANGED <<files, notServices>>

\* POST /api/admin/services: { ...req.body, id: newId } pushed and written
ServicePost(cred, title, ok) ==
    /\ Len(files.services) < MaxItems
    /\ NewId(files.services).n <= MaxItems + 1
    /\ LET code == checkPermission(cred, "admin")
           newItem == [id |-> NewId(files.services), title |-> title]
       IN  IF code # 0
           THEN /\ ans' = ServiceAnswer("post", NullId, code, {})
                /\ UNCHANGED files
           ELSE IF ~ok
           THEN /\ ans' = ServiceAnswer("post", NullId, 500, {})
                /\ UNCHANGED files
           ELSE /\ files' = [files EXCEPT !.services = Append(@, newItem)]
                /\ ans' = ServiceAnswer("post", NullId, 200, {newItem})
    /\ UNCHANGED notServices

\* PUT /api/admin/services/:id: { ...items[index], ...req.body } written
ServicePut(cred, param, title, ok) ==
    /\ LET code == checkPermission(cred, "admin")
           index == findIndexService(files.services, param)
       IN  IF code # 0
           THEN /\ ans' = ServiceAnswer("put", param, code, {})
                /\ UNCHANGED files
           ELSE IF index = 0
           THEN /\ ans' = ServiceAnswer("put", param, 404, {})
                /\ UNCHANGED files
           ELSE IF ~ok
           THEN /\ ans' = ServiceAnswer("put", param, 500, {})
                /\ UNCHANGED files
           ELSE /\ files' = [files EXCEPT !.services[index].title = title]
                /\ ans' = ServiceAnswer("put", param, 200, {files'.services[index]})
    /\ UNCHANGED notServices

\* DELETE /api/admin/services/:id: items.filter(i => i.id !== parseInt(id))
ServiceDelete(cred, param, ok) ==
    /\ LET code == checkPermission(cred, "admin")
       IN  IF code # 0
           THEN /\ ans' = ServiceAnswer("delete", param, code, {})
                /\ UNCHANGED files
           ELSE IF ~ok
           THEN /\ ans' = ServiceAnswer("delete", param, 500, {})
                /\ UNCHANGED files
           ELSE /\ \E serviceId \in parseInt(param) :
                      files' = [files EXCEPT !.services =
                                   SelectSeq(@, LAMBDA i : i.id # NumId(serviceId))]
                /\ ans' = ServiceAnswer("delete", param, 200, {})
    /\ UNCHANGED notServices

ServicesNext ==
    \/ \E cred \in Credentials, param \in ServiceParams : ServiceGet(cred, param)
    \/ \E cred \in Credentials, title \in ServiceTitles, ok \in BOOLEAN :
          ServicePost(cred, title, ok)
    \/ \E cred \in Credentials, param \in ServiceParams, title \in ServiceTitles, ok \in BOOLEAN :
          ServicePut(cred, param, title, ok)
    \/ \E cred \in Credentials, param \in ServiceParams, ok \in BOOLEAN :
          ServiceDelete(cred, param, ok)

ServicesSpec == FilesInit /\ [][ServicesNext]_vars

(***************************************************************************)
(* The portfolio list under requests that run one after another            *)
(***************************************************************************)

\* POST /api/admin/portfolio run from its read to its answer, the file
\* written (a failed read or write answers 500 and changes nothing).
PortfolioPost(cred, title) ==
    /\ preq.pc = "idle"
    /\ Len(files.portfolio) < MaxItems + MaxProjects
    /\ checkPermission(cred, "admin") = 0
    /\ files' = [files EXCEPT !.portfolio = Push("portfolio", @, title).items]
    /\ UNCHANGED <<projects, projectSeq, preq, awrite, torn, notProjects>>

\* DELETE /api/admin/portfolio/:id run from its read to its answer:
\* items.filter(i => i.id !== parseInt(id)), the file written
PortfolioDelete(cred, param) ==
    /\ preq.pc = "idle"
    /\ checkPermission(cred, "admin") = 0
    /\ \E projectId \in parseInt(param) :
          files' = [files EXCEPT !.portfolio =
                       SelectSeq(@, LAMBDA i : i.id # NumId(projectId))]
    /\ UNCHANGED <<projects, projectSeq, preq, awrite, torn, notProjects>>

PortfolioSeqNext ==
    \/ \E cred \in Credentials, body \in ProjectBodies : ProjectBegin(cred, "create", 0, body)
    \/ \E cred \in Credentials, id \in ProjectIds, body \in ProjectBodies :
          ProjectBegin(cred, "update", id, body)
    \/ \E cred \in Credentials, id \in ProjectIds :
          ProjectBegin(cred, "delete", id, IdleProjectRequest.body)
    \/ \E ok \in BOOLEAN : ProjectCreated(ok)
    \/ ProjectUpdateFound
    \/ \E ok \in BOOLEAN : ProjectSaved(ok)
    \/ \E ok \in BOOLEAN : ProjectSynced(ok)
    \/ \E ok \in BOOLEAN, hasRemove \in BOOLEAN : ProjectDeleteFound(ok, hasRemove)
    \/ ProjectRemoved
    \/ ProjectFinish
    \/ \E cred \in Credentials, title \in Titles : PortfolioPost(cred, title)
    \/ \E cred \in Credentials, param \in ServiceParams \cup {OidId(id) : id \in ProjectIds} :
          PortfolioDelete(cred, param)

PortfolioSeqSpec == ProjectsInit /\ [][PortfolioSeqNext]_vars

(***************************************************************************)
(* Properties                                                              *)
(***************************************************************************)
\* The submission in progress passed the required-field check, so that its
\* contact object exists and has been scored.
Scored ==
    \/ req.pc \in {"saving", "findingAdmins", "notifying"}
    \/ (req.pc = "done" /\ req.resp # 400)

\* The record of the submission in progress has been saved.
Saved == req.contactId # 0

\* C1: detectSpam sets isSpam to true exactly when the spam score is at
\* least 5: a submission scoring exactly 5 is spam, one scoring exactly 4 is
\* not.
C1_SpamIffScoreAtLeastFive ==
    Scored =>
        /\ req.contactData.isSpam = (req.contactData.spamScore >= 5)
        /\ req.contactData.spamScore = 5 => req.contactData.isSpam
        /\ req.contactData.spamScore = 4 => ~req.contactData.isSpam

C1_Witness == Scored /\ req.contactData.spamScore = 5 /\ req.contactData.isSpam

\* Occurrence of a word in a text, as it is written.
OccursIn(word, text) ==
    \E i \in 1..Len(text) :
        /\ i + Len(word) - 1 <= Len(text)
        /\ \A k \in 1..Len(word) : text[i + k - 1] = word[k]

\* Occurrence of a lower-case word in a text, letter case of the text ignored.
OccursIgnoringCase(word, text) ==
    \E i \in 1..Len(text) :
        /\ i + Len(word) - 1 <= Len(text)
        /\ \A k \in 1..Len(word) : ToLowerChar(text[i + k - 1]) = word[k]

Denylist ==
    {Str_viagra, Str_casino, Str_loan, Str_credit, Str_free_money, Str_click_here}

\* The sum of the four signals, given the denylisted words counted as present.
SignalSum(present, message, email) ==
    2 * Cardinality(present)
    + (IF 10 * Len(SelectSeq(message, IsUpper)) > 7 * Len(message) THEN 3 ELSE 0)
    + (IF OccursIn(Str_at_temp, email) \/ OccursIn(Str_at_test, email) THEN 5 ELSE 0)
    + (IF Len(message) < 10 THEN 2 ELSE 0)

\* C2 as stated: the spam score is the sum of +2 for each denylisted
\* substring that occurs in the message, +3 if more than 0.7 of the message's
\* characters are uppercase, +5 if the email contains "@temp" or "@test", +2
\* if the message is shorter than 10 characters, and nothing else.
C2_ScoreIsSumOfSignalsAsWritten ==
    Scored =>
        LET message == req.input.body.message
            email == req.input.body.email
        IN  req.contactData.spamScore =
                SignalSum({w \in Denylist : OccursIn(w, message)}, message, email)

\* C2 as amended: the same sum, with a denylisted substring counted when it
\* occurs in the message with letter case ignored (the email is searched as
\* it is written).
C2_ScoreIsSumOfSignals ==
    Scored =>
        LET message == req.input.body.message
            email == req.input.body.email
        IN  req.contactData.spamScore =
                SignalSum({w \in Denylist : OccursIgnoringCase(w, message)}, message, email)

C2_Witness ==
    /\ Scored
    /\ req.input.body.message = Msg_VIAGRA
    /\ req.input.body.email = Email_test
    /\ req.contactData.spamScore = 12

\* C3: the 201 response to POST /api/contact goes out before the admin
\* notification insert of that submission completes: the response does not
\* wait for a side effect.
C3_ResponseBeforeNotificationCompletes ==
    req.resp = 201 => ~("notification" \in req.settledAtResponse /\ req.notif = "ok")

\* C4: once the record is saved the submission is answered 201 and with
\* nothing else, whichever side effects fail, and each side effect is
\* attempted whatever became of the others: the mail always, the admin
\* notification always, the spreadsheet append for a non-spam submission.
C4_SideEffectsIndependent ==
    /\ Saved => req.resp \in {0, 201}
    /\ (Saved /\ req.pc = "done") =>
          /\ req.resp = 201
          /\ req.email # "none"
          /\ req.notif \notin {"none", "lookup"}
          /\ ~req.contactData.isSpam => req.sheets # "none"

C4_Witness ==
    /\ Saved /\ req.pc = "done" /\ req.resp = 201
    /\ req.sheets = "failed" /\ req.email = "failed" /\ req.notif = "failed"

\* C5: a submission that passed the required-field check is saved whether it
\* is classified as spam or not (its save is possible whenever the schema
\* accepts it, and the stored record carries the classification), and the
\* spreadsheet append is started exactly for the saved non-spam submissions.
C5_PersistedRegardlessSheetsIffHam ==
    /\ (req.pc = "saving" /\ contactSchemaValid(NewContact(req.contactData)))
          => ENABLED (\E iv \in IVs : SaveOk(iv))
    /\ Saved => (req.sheets # "none") = ~req.contactData.isSpam
    /\ ~Saved => req.sheets = "none"
    /\ (Saved /\ req.contactId \in DOMAIN contacts) =>
          /\ contacts[req.contactId].isSpam = req.contactData.isSpam
          /\ contacts[req.contactId].spamScore = req.contactData.spamScore

C5_Witness ==
    /\ Saved /\ req.contactId \in DOMAIN contacts
    /\ contacts[req.contactId].isSpam
    /\ req.sheets = "none" /\ req.email # "none"

\* A required field is absent from the body of the submission in progress.
RequiredAbsent == req.pc # "idle" /\ {"name", "email", "message"} \ DOMAIN req.input.body # {}

\* C6: a submission with name, email or message absent is answered 400, no
\* Contact record is saved for it and no side effect is started.
C6_MissingFieldRejected ==
    /\ [](RequiredAbsent =>
            /\ req.pc = "done" /\ req.resp = 400
            /\ ~Saved
            /\ req.sheets = "none" /\ req.email = "none" /\ req.notif = "none")
    /\ [][RequiredAbsent' /\ req' # req =>
            contacts' = contacts /\ contactSeq' = contactSeq
            /\ notifications' = notifications]_vars

C6_Witness == RequiredAbsent /\ req.pc = "done" /\ req.resp = 400 /\ contactSeq = 0

\* C7: a submission whose required fields are present but which fails the
\* schema's validators is answered 400.
C7_ValidationFailureAnswered400 ==
    (req.pc = "done" /\ ~MissingRequired(req.input.body)
       /\ ~contactSchemaValid(NewContact(req.contactData)))
        => req.resp = 400

\* The serialized members inside a stored blob.
BlobPayload(doc) == doc.encryptedData[3].hex.plain

\* The four sensitive members of a document, as JSON.stringify lists them.
SensitiveMembers(doc) == [i \in 1..4 |-> <<SensitiveKeys[i], doc[SensitiveKeys[i]]>>]

\* A stored record has a blob with the four sensitive members; while its
\* submission is in progress these are checked to be the submitted values.
HoldsBlob(id) ==
    /\ contacts[id].encryptedData # Null
    /\ Len(contacts[id].encryptedData) = 3
    /\ [i \in 1..Len(BlobPayload(contacts[id])) |-> BlobPayload(contacts[id])[i][1]]
         = SensitiveKeys
    /\ req.contactId = id =>
         BlobPayload(contacts[id]) = SensitiveMembers(NewContact(req.contactData))

\* C8 as stated: every stored Contact record has name, email, phone and
\* message equal to the placeholder marker "[ENCRYPTED]" and a non-null blob
\* holding the four values.
C8_AllFourEqualMarker ==
    \A id \in DOMAIN contacts :
        /\ contacts[id].name = ENCRYPTED
        /\ contacts[id].email = ENCRYPTED
        /\ contacts[id].phone = ENCRYPTED
        /\ contacts[id].message = ENCRYPTED
        /\ HoldsBlob(id)

Str_encrypted_lower == <<"[", "e", "n", "c", "r", "y", "p", "t", "e", "d", "]">>

\* C8 as amended: every stored Contact record has name, phone and message
\* equal to "[ENCRYPTED]", email equal to the marker in lower case,
\* "[encrypted]", and a non-null blob holding the four values; none of the
\* four fields holds the submitted text.
C8_PlaceholdersAndBlob ==
    \A id \in DOMAIN contacts :
        /\ contacts[id].name = ENCRYPTED
        /\ contacts[id].email = Str_encrypted_lower
        /\ contacts[id].phone = ENCRYPTED
        /\ contacts[id].message = ENCRYPTED
        /\ HoldsBlob(id)

C8_Witness ==
    \E id \in DOMAIN contacts :
        req.contactId = id /\ req.contactData.email # contacts[id].email

\* C9: decryptSensitiveData applied to a record that encryptSensitiveData has
\* just encrypted, under the same secret, returns the name, email, phone and
\* message the record held before encryption.
C9_DecryptReturnsOriginal ==
    (Saved /\ req.contactId \in DOMAIN contacts) =>
        LET original == NewContact(req.contactData)
            decrypted == decryptSensitiveData(contacts[req.contactId], JWT_SECRET)
        IN  /\ DOMAIN decrypted = {"name", "email", "phone", "message"}
            /\ decrypted.name = original.name
            /\ decrypted.email = original.email
            /\ decrypted.phone = original.phone
            /\ decrypted.message = original.message

C9_Witness ==
    /\ Saved /\ req.contactId \in DOMAIN contacts
    /\ req.input = In_ham
    /\ decryptSensitiveData(contacts[req.contactId], JWT_SECRET).name = Name_Al

\* C10: a stored contact changes only by the admin status change: every step
\* leaves every field of an existing record other than status as it was (no
\* later save encrypts again), and a step that changes a record is a PUT
\* /api/contact/:id by an admin, not a step of the public submission.
C10_OnlyStatusChanges ==
    [][\A id \in DOMAIN contacts \cap DOMAIN contacts' :
          /\ [contacts'[id] EXCEPT !.status = contacts[id].status] = contacts[id]
          /\ contacts'[id] # contacts[id] =>
                /\ req' = req
                /\ \E body \in StatusBodies : PutContact("admin", id, body)]_vars

C10_Witness ==
    \E id \in DOMAIN contacts :
        /\ contacts[id].status = Str_read
        /\ contacts[id].name = ENCRYPTED

\* C11: a DELETE /api/admin/users/:id whose target is the only superadmin is
\* answered 400 and deletes nothing; with two superadmins, the DELETE of one
\* of them is answered with success and leaves exactly one superadmin.
C11_LastSuperadminRefusedOtherDeleted ==
    [][\A r \in DeleteRequests :
          (/\ dels[r].pc \in {"counting", "removing"}
           /\ dels[r].role = "superadmin"
           /\ dels'[r].pc = "done")
          => /\ Cardinality(Superadmins) = 1
                => (dels'[r].resp = 400 /\ users' = users)
             /\ Cardinality(Superadmins) = 2
                => (dels'[r].resp = 200 /\ Cardinality(Superadmins') = 1)]_vars

BothAdded(v, w) ==
    /\ v # w
    /\ awrite[v].pc = "done" /\ awrite[v].resp = 200
    /\ awrite[w].pc = "done" /\ awrite[w].resp = 200
    /\ awrite[v].file = awrite[w].file
    /\ awrite[v].item # awrite[w].item

Holds(file, item) ==
    \E i \in DOMAIN files[file] :
        IF file = "slideshow" THEN files[file][i] = item ELSE files[file][i].title = item

\* C15: the admin read-modify-write of a flat list holds no lock: a write
\* answered with success leaves in the file the writer's own copy, made from
\* what it read, whatever was written to the file since; so two requests can
\* both be answered with success while the file holds the update of one.
C15_LastWriteWins ==
    [][\A w \in Writers :
          (awrite[w].pc = "writing" /\ awrite'[w].resp = 200)
          => files'[awrite[w].file] = awrite[w].items]_vars

C15_Witness ==
    \E v, w \in Writers :
        /\ BothAdded(v, w)
        /\ Holds(awrite[v].file, awrite[v].item)
        /\ ~Holds(awrite[w].file, awrite[w].item)

\* C16: a request without an admin's bearer credential changes no flat list
\* and uploads no file: on the admin router it is refused before the handler
\* runs, and the other write routes leave lists and uploads as they were.
C16_NoWriteWithoutAdminCredential ==
    [][\A cred \in Credentials \ {"admin"} :
          /\ \A w \in Writers, file \in FileNames :
                \A item \in ItemsFor(file) :
                    AdminPostBegin(w, cred, file, item)
                    => awrite'[w].pc = "done" /\ awrite'[w].resp \in {401, 403}
          /\ (\/ \E image \in Images \cup {NoImage}, ok \in BOOLEAN :
                    SlideshowPost(cred, image, ok)
              \/ \E idx \in 0..MaxItems, ok \in BOOLEAN : SlideshowDelete(cred, idx, ok)
              \/ \E file \in Uploads : Upload(cred, file))
             => (files' = files /\ uploads' = uploads)]_vars

\* GET /api/portfolio shows an entry whose id is the project's.
Listed(id) == \E i \in DOMAIN getPortfolio : getPortfolio[i].id = OidId(id)

\* C13: once POST /api/projects has answered 201 the portfolio list shows an
\* entry with the id of the project, and once DELETE /api/projects/:id has
\* answered with success the list shows none.
C13_PortfolioFollowsProject ==
    /\ (preq.pc = "done" /\ preq.op = "create" /\ preq.resp = 201) => Listed(preq.id)
    /\ (preq.pc = "done" /\ preq.op = "delete" /\ preq.resp = 200) => ~Listed(preq.id)


\* The collection and portfolio.json agree about a project: it has an entry
\* exactly when it is in the collection, and every entry with its id carries
\* the title and the sequence of the document.
Agree(id) ==
    IF id \in DOMAIN projects
    THEN /\ EntriesOf(files.portfolio, id) # {}
         /\ \A i \in EntriesOf(files.portfolio, id) :
               /\ files.portfolio[i].title = projects[id].title
               /\ Sequence(files.portfolio[i]) = projects[id].sequence
    ELSE EntriesOf(files.portfolio, id) = {}

\* C14 as stated: once the process was lost between the two writes for a
\* project, the collection and the file never agree about it again.
C14_TornNeverRepaired == \A id \in torn : ~Agree(id)

\* A step of a request on project id that writes the document or rewrites
\* portfolio.json, or an admin write of the whole list.
WritesFor(id) ==
    \/ preq.id = id /\ preq.pc \in {"saving", "syncing"}
    \/ preq.id = id /\ preq.pc = "finding" /\ preq.op \in {"delete", "sequence"}
    \/ preq.id = id /\ preq.pc = "removing"
    \/ \E w \in Writers : awrite[w].pc = "writing"

\* C14, amended: the loss of the process between Project.create and the
\* rewrite of portfolio.json leaves the project without an entry; the restart
\* repairs nothing, and the two stores come to agree again about a project
\* only in a writing step of a later PUT or DELETE of that project or update
\* of its sequence (or of an admin write of the whole list), never otherwise.
C14_RepairedOnlyByLaterWrite ==
    [][/\ \A id \in ProjectIds :
              (preq.id = id /\ preq.pc = "syncing" /\ preq.op = "create" /\ preq'.pc = "idle")
                  => (id \in torn' /\ ~Agree(id)')
       /\ \A id \in torn : (~Agree(id) /\ Agree(id)') => WritesFor(id)]_vars

\* C14: a project left torn by a crash, the stores in disagreement about it.
C14_Witness == \E id \in torn : ~Agree(id) /\ preq.pc = "idle"


\* C17: a project with published = false is returned to a caller without
\* credentials by none of GET /api/projects, GET /api/projects/:id,
\* GET /api/portfolio and GET /api/project/:id.
C17_UnpublishedNeverPublic ==
    \A id \in DOMAIN projects :
        ~projects[id].published =>
            /\ id \notin getProjects
            /\ getProject("none", id) = 404
            /\ ~Listed(id)
            /\ \A n \in 1..MaxItems :
                  getPortfolioProject(n) \cap EntriesOf(files.portfolio, id) = {}


\* The collection without the document at position i.
Without(i) == SubSeq(notifications, 1, i - 1) \o SubSeq(notifications, i + 1, Len(notifications))

\* C18: the step in which PUT /api/notifications/read with no ids (left out
\* or an empty array) has marked, leaves the user's unread count at zero and
\* every notification of the user read, whatever the user held.
C18_MarkAllLeavesNoUnread ==
    [][\A u \in UserIds :
          (/\ nreq.pc = "marking"
           /\ nreq.user = u
           /\ nreq.notificationIds.ids = {}
           /\ nreq'.pc = "counting")
          => /\ getUnreadCount(u)' = 0
             /\ \A i \in DOMAIN notifications' :
                   notifications'[i].recipient = u => notifications'[i].read]_vars

\* C18: the marking has just changed an unread notification of the user,
\* one with a date, and another user's notification is still unread.
C18_Witness ==
    /\ nreq.pc = "counting"
    /\ nreq.notificationIds.ids = {}
    /\ nreq.modified >= 1
    /\ getUnreadCount(nreq.user) = 0
    /\ \E i \in DOMAIN notifications :
          notifications[i].recipient = nreq.user /\ notifications[i].expiresAt # Null
    /\ \E i \in DOMAIN notifications :
          notifications[i].recipient # nreq.user /\ ~notifications[i].read

\* C19: a notification with a date is in no result of the recipient's unread
\* query or listing and is not counted once the date is past, purged or not;
\* before the date it is in every listing, and if unread in every unread
\* result, that has room for the documents matched, and it is counted.
C19_ExpiredExcludedUnexpiredIncluded ==
    \A i \in DOMAIN notifications :
        LET n == notifications[i]
            u == n.recipient
        IN  n.expiresAt # Null =>
              /\ now > getTime(n.expiresAt) =>
                    /\ \A limit \in NotificationIds : \A r \in getUnread(u, limit) : n._id \notin r
                    /\ \A page, limit \in NotificationIds :
                          \A r \in getForUser(u, page, limit) : n._id \notin r
                    /\ getUnreadCount(u) = Cardinality(Find(Without(i), u, TRUE))
              /\ now < getTime(n.expiresAt) =>
                    /\ \A limit \in NotificationIds :
                          limit >= Cardinality(Find(notifications, u, FALSE))
                              => \A r \in getForUser(u, 1, limit) : n._id \in r
                    /\ ~n.read =>
                          /\ \A limit \in NotificationIds :
                                limit >= Cardinality(Find(notifications, u, TRUE))
                                    => \A r \in getUnread(u, limit) : n._id \in r
                          /\ getUnreadCount(u) = Cardinality(Find(Without(i), u, TRUE)) + 1

\* C19: an unread notification whose date is past is still in the
\* collection, beside an unread one of the same recipient whose date is to
\* come.
C19_Witness ==
    \E i, j \in DOMAIN notifications :
        /\ notifications[i].recipient = notifications[j].recipient
        /\ ~notifications[i].read /\ ~notifications[j].read
        /\ notifications[i].expiresAt # Null /\ now > getTime(notifications[i].expiresAt)
        /\ notifications[j].expiresAt # Null /\ now < getTime(notifications[j].expiresAt)


\* C20: a POST /api/blog by an admin with a title and a category of the enum
\* is answered 201, and the post is stored with the slug derived from its
\* title.
C20_CreateDerivesSlug ==
    (/\ breq.op = "create"
     /\ breq.resp \notin {401, 403, 500}
     /\ Truthy(breq.title) /\ Trim(breq.title) # <<>>
     /\ breq.category \in CategoryEnum)
    => /\ breq.resp = 201
       /\ breq.id \in DOMAIN posts
       /\ posts[breq.id].slug = generateSlug(Trim(breq.title))


\* C21: GET /api/seo/sitemap.xml is answered by the sitemap handler with
\* one url entry for each record of the collection, and GET
\* /api/seo/robots.txt by the robots handler with the robots text.
C21_SitemapAndRobotsServed ==
    /\ (ans.route = "GET /api/seo" /\ ans.param = "sitemap.xml")
          => (ans.handler = "sitemap" /\ ans.resp = 200
                /\ Cardinality(ans.body) = Cardinality(DOMAIN seo))
    /\ (ans.route = "GET /api/seo" /\ ans.param = "robots.txt")
          => (ans.handler = "robots" /\ ans.resp = 200 /\ ans.body = {"robots"})


\* The side effects of the submission in progress that have been started.
Started(r) ==
    {e \in {"sheets", "email", "notification"} :
        (CASE e = "sheets" -> r.sheets [] e = "email" -> r.email [] OTHER -> r.notif) # "none"}

\* C22: a failed save is answered 500, in that step and only there, with no
\* Contact stored and no side effect started; a side effect is started only
\* in the step in which the save succeeds or after it, never started again,
\* and an answer given is not given again.
C22_SaveFailureStartsNothing ==
    [][/\ (req.pc = "saving" /\ req'.pc = "done")
            => /\ req'.resp = 500
               /\ contacts' = contacts
               /\ notifications' = notifications
               /\ Started(req') = {}
       /\ (req'.pc = "done" /\ req'.resp = 500) => req.pc \in {"saving", "done"}
       /\ (req.pc = "done" /\ req'.pc = "done") => req'.resp = req.resp
       /\ (Started(req') # {} /\ Started(req) = {})
            => (req.pc = "saving" /\ req'.contactId \in DOMAIN contacts' /\ contacts' # contacts)
       /\ (req.pc # "idle" /\ req'.pc # "idle") =>
            /\ Started(req) \subseteq Started(req')
            /\ req'.sheets = "pending" => req.sheets \in {"none", "pending"}
            /\ req'.email = "pending" => req.email \in {"none", "pending"}
            /\ req'.notif = "lookup" => req.notif \in {"none", "lookup"}
            /\ req'.notif = "pending" => req.notif \in {"lookup", "pending"}
            /\ notifications' # notifications => (req.notif = "pending" /\ req'.notif = "ok")]_vars

\* C22: a submission whose save failed has been answered 500 where mail and
\* spreadsheet are configured and admins are there to notify, and nothing
\* was started or stored.
C22_Witness ==
    /\ req.pc = "done"
    /\ req.resp = 500
    /\ Started(req) = {}
    /\ env = {"sheets", "mail"}
    /\ ActiveAdmins # {}
    /\ ~req.contactData.isSpam
    /\ contacts = <<>>

\* A login step that hands out a token.
Issues(r) == areq[r].route = "login" /\ areq[r].token = "none" /\ areq'[r].token # "none"

\* C23 (as stated): POST /api/auth/login never issues a token for an account
\* that is deactivated at the moment the token is issued.
C23_NoTokenForDeactivated ==
    [][\A r \in AuthRequests : Issues(r) => users[areq[r].username].isActive]_vars

\* C23: POST /api/auth/login issues a token only for an account that was
\* active, and whose password matched, in the document the login read; the
\* last-login timestamp of a user changes only in the step that answers that
\* user's login with 200 and a token; a login answered otherwise changes no
\* user record.
C23_TokenOnlyForAccountReadActive ==
    [][/\ \A r \in AuthRequests :
             Issues(r) =>
                 /\ areq[r].user.isActive
                 /\ comparePassword(areq[r].user, areq[r].password)
                 /\ areq'[r].resp = 200
                 /\ areq'[r].token = areq[r].username
       /\ \A u \in DOMAIN users :
             (u \in DOMAIN users' /\ users'[u].lastLogin # users[u].lastLogin) =>
                 \E r \in AuthRequests : Issues(r) /\ areq[r].username = u
       /\ \A r \in AuthRequests :
             (areq[r].route = "login" /\ areq[r].pc # "done" /\ areq'[r].pc = "done"
                 /\ areq'[r].resp # 200) => users' = users]_vars

C23_Witness ==
    /\ \E r \in AuthRequests :
          /\ areq[r].route = "login" /\ areq[r].pc = "done"
          /\ areq[r].username = "u2" /\ areq[r].password = "secret"
          /\ areq[r].resp = 401
    /\ \E r \in AuthRequests :
          /\ areq[r].route = "login" /\ areq[r].token = "u1"
          /\ users["u1"].lastLogin # Null

\* C24: in every interleaving of setup-admin requests at most one admin is
\* created through the endpoint, and a call made while an admin exists is
\* answered 400.
C24_AtMostOneAdminCreated ==
    Cardinality({u \in DOMAIN users : u \in SetupNames /\ users[u].role = "admin"}) <= 1

\* C25: every entry of the list GET /api/portfolio returns, the entries
\* written by the project sync included, is what GET /api/project/:id
\* returns for that entry's id.
C25_EveryEntryFetchable ==
    \A i \in DOMAIN getPortfolio : FetchedById(i)

\* C26: a service that POST /api/admin/services has just created and answered
\* is found by GET and PUT /api/admin/services/:id under the id of the answer.
C26_CreatedServiceFoundById ==
    (ans.route = "/api/admin/services" /\ ans.handler = "post" /\ ans.resp = 200)
        => \A item \in ans.body : findIndexService(files.services, item.id) # 0

\* C27: the ids of the entries of portfolio.json are pairwise distinct.
C27_PortfolioIdsDistinct ==
    \A i, j \in DOMAIN files.portfolio :
        files.portfolio[i].id = files.portfolio[j].id => i = j

\* C28: every notification whose read flag is true has a readAt that is not
\* null, whichever route marked it.
C28_ReadHasReadAt ==
    \A i \in DOMAIN notifications : notifications[i].read => notifications[i].readAt # Null

C28_Witness ==
    /\ Len(notifications) >= 2
    /\ \A i \in DOMAIN notifications : notifications[i].read
    /\ ans.handler = "read" /\ ans.resp = 200
    /\ nreq.pc = "counting" /\ nreq.modified >= 1
    /\ nreq.notificationIds.given /\ nreq.notificationIds.ids # {}

\* The notifications of the recipients other than user, in their order.
NotOf(user) == SelectSeq(notifications, LAMBDA doc : doc.recipient # user)

\* C29: a step that changes a notification of a recipient other than U is no
\* step of PUT /api/notifications/read, PUT /api/notifications/:id/read or
\* DELETE /api/notifications/:id made for user U: these leave the
\* notifications of every other recipient as they were.
C29_OthersNotificationsUnchanged ==
    [][\A user \in InboxUsers :
          NotOf(user)' # NotOf(user) =>
              ~(\/ nreq.user = user /\ \E ok \in BOOLEAN : ReadMarked(ok)
                \/ \E id \in NotificationIds, ok \in BOOLEAN : MarkOneRead(user, id, ok)
                \/ \E id \in NotificationIds, hasRemove \in BOOLEAN, ok \in BOOLEAN :
                      NotificationDelete(user, id, hasRemove, ok))]_vars

C29_Witness ==
    /\ nreq.pc = "counting"
    /\ nreq.notificationIds.given
    /\ nreq.modified = 0
    /\ \E i \in DOMAIN notifications :
          /\ notifications[i]._id \in nreq.notificationIds.ids
          /\ notifications[i].recipient # nreq.user
          /\ ~notifications[i].read
    /\ ans.handler = "delete" /\ ans.resp = 404

FormFields == {"name", "email", "phone", "service", "budget", "message"}

\* A submission with everything but the six form fields taken out of its body.
FormOnly(input) ==
    [input EXCEPT !.body = [k \in DOMAIN input.body \cap FormFields |-> input.body[k]]]

\* The contact object built from the six form fields and the client info.
FormData(input) ==
    [name      |-> Get(input.body, "name"),
     email     |-> Get(input.body, "email"),
     phone     |-> OrElse(Get(input.body, "phone"), <<>>),
     service   |-> OrElse(Get(input.body, "service"), <<>>),
     budget    |-> OrElse(Get(input.body, "budget"), <<>>),
     message   |-> Get(input.body, "message"),
     ipAddress |-> input.ip,
     userAgent |-> Get(input.headers, "userAgent")]

\* C30: the record stored for a submission is the record of the same
\* submission without its extra body fields: its status is 'new', its isSpam
\* and spamScore are those detectSpam computes from the form fields and the
\* client info, and the whole document is the one built from these alone.
C30_StoredRecordIgnoresExtraFields ==
    [][contactSeq' = contactSeq + 1 =>
          LET doc == contacts'[contactSeq + 1]
              data == FormData(FormOnly(req.input))
              spamCheck == detectSpam(data)
              contactData == [isSpam |-> spamCheck.isSpam,
                              spamScore |-> spamCheck.spamScore] @@ data
          IN  /\ doc.status = Str_new
              /\ doc.isSpam = spamCheck.isSpam
              /\ doc.spamScore = spamCheck.spamScore
              /\ \E iv \in IVs : doc = preSave(NewContact(contactData), TRUE, iv, JWT_SECRET)]_vars

C30_Witness ==
    /\ req.contactId \in DOMAIN contacts
    /\ {"status", "isSpam", "spamScore", "encryptedData"} \subseteq DOMAIN req.input.body
    /\ req.input.body.isSpam # contacts[req.contactId].isSpam
    /\ req.input.body.spamScore # contacts[req.contactId].spamScore
    /\ contacts[req.contactId].status = Str_new
    /\ contacts[req.contactId].encryptedData # req.input.body.encryptedData

====
